---------------------------- MODULE Spec2Model ----------------------------
(***************************************************************************)
(* Model of the live-caption engine of ggc-subtitle (backend/app):         *)
(*   - HlsPlaylistParser and the uploader loop   (SpecHls)                 *)
(*   - _SentenceBuffer and the receiver loop     (SpecBuf)                 *)
(*   - ChannelSttService start/stop/reconnect    (Spec, SpecLoop)          *)
(*   - the reconnect back-off and the watchdog   (SpecWd, SpecWdLive)      *)
(*   - ConnectionManager, the subscriber hub     (SpecHub, SpecHist)       *)
(*   - ChannelStatusService, the status poller   (SpecStatus, SpecNotify)  *)
(*   - AutoSttManager, the worker supervisor     (SpecAuto, SpecMon,       *)
(*                                      SpecFault, SpecStop, SpecRecon)    *)
(*   - VodSttService, the VOD batch worker       (SpecVod, SpecParse)      *)
(*   - SubtitleCorrectorService, the refiner     (SpecRef, SpecRefLive)    *)
(*   - DeepgramService.transcribe                (SpecAsr)                 *)
(*   - group_words_by_speaker                    (SpecGroup)               *)
(*   - the terminology dictionary                (SpecDict)                *)
(* Every specification starts from the same Init; each moves only the      *)
(* variables of its own component.                                         *)
(***************************************************************************)
EXTENDS Integers, Sequences, FiniteSets, TLC

VARIABLES
    \* ---- HlsPlaylistParser + ChannelSttService._send_segments ----
    seen_segments,   \* HlsPlaylistParser._seen_segments
    hpc,             \* position of _send_segments: "poll" | "download" | "sleep"
    new_segments,    \* the part of new_segments the for-loop has still to visit
    sent,            \* URIs whose bytes were written to dg_ws, in order
    origin,          \* origin[u]: whether a GET of segment u succeeds right now
    polls,           \* number of fetch_segments calls made so far
    prevResp,        \* argument of the get_new_segments call before the last one
    lastResp,        \* argument of the last get_new_segments call
    lastRet,         \* what the last get_new_segments call returned
    retCount,        \* retCount[u]: how often get_new_segments has returned u
    failed,          \* URIs with a failed download so far
    failedEarlier,   \* URIs whose download had failed before the current poll
    relisted,        \* failed URIs that a later poll listed while fetchable
    sentLate,        \* URIs written at a poll later than one where they failed
    \* ---- _SentenceBuffer + ChannelSttService._receive_transcripts ----
    buffer,          \* the channel's _SentenceBuffer (with the speaker of each part)
    rpc,             \* receiver: "idle" (no session), "recv" (awaiting a frame),
                     \* "emit_change" / "emit_flush" / "emit_final" (suspended in
                     \* the _emit_subtitle call of line 482 / 488 / 496)
    dgClock,         \* audio seconds the provider has transcribed in this session
    pending,         \* speaker groups of the current frame still to be handled
    captions,        \* captions emitted in this session, in emission order
    addedRuns,       \* texts of the runs added to the buffer in this session
    lastInterim,     \* text of the last subtitle_interim broadcast (<<>>: none)
    sessionEnd,      \* how the last session ended: "none"|"graceful"|"error"|"cancelled"
    scenarioPos,     \* k: this session received exactly the first k scenario frames; -1: not
    prevStart,       \* start_time of the worker's last-but-one caption (-1: none)
    lastStart,       \* start_time of the worker's last caption (-1: none)
    \* ---- ChannelSttService lifecycle + ConnectionManager history ----
    active_tasks,    \* ChannelSttService._active_tasks: channel -> task id (None: absent)
    parsers,         \* ChannelSttService._parsers: channel -> parser id (None: absent)
    subtitle_counter,\* ChannelSttService._subtitle_counter (None: absent)
    sentence_buffers,\* ChannelSttService._sentence_buffers: channel -> buffer object id
    last_error,      \* ChannelSttService._last_error
    reconnect_count, \* ChannelSttService._reconnect_count
    subtitle_history,\* ConnectionManager.subtitle_history (absent key = <<>>)
    worker,          \* the reconnect-loop tasks created by start(), by task id
    session,         \* the websocket sessions opened by _run(), by session id
    bufobj,          \* parts of each _SentenceBuffer object
    caller,          \* the coroutines calling start / stop / stop_all
    nextTask,        \* id the next created task gets
    nextSess,        \* id the next opened session gets
    nextFrag,        \* id the next final fragment gets
    callerError,     \* callers to which an exception of a worker task was raised
    \* ---- ConnectionManager (api/websocket.py) ----
    active_connections, \* room -> list of handles (empty: the key is absent)
    room_history,    \* ConnectionManager.subtitle_history: room -> list of captions
    handle,          \* per websocket: endpoint position, transport, messages received
    btask,           \* per broadcasting task: its position in a broadcast_* call
    next_id,         \* id the next caption passed to broadcast_subtitle carries
    passed,          \* room -> ids passed to broadcast_subtitle since the last clear
    emitted,         \* room -> ids ever passed to broadcast_subtitle
    interims,        \* number of broadcast_interim_subtitle calls so far
    corrections,     \* number of broadcast_corrected_subtitle calls so far
    \* ---- ChannelStatusService (services/channel_status.py) ----
    status,          \* _status: code -> livestatus, None for an absent code
    prev_status,     \* _prev_status
    age,             \* time.monotonic() - _last_fetched in whole seconds, counted
                     \* up to CACHE_TTL_SECONDS
    lock,            \* _lock: the caller that holds it, or NoCaller
    waiters,         \* callers queued at the lock, first come first
    poller,          \* per caller of fetch_status: its position in the call
    subscribers,     \* _subscribers: list of queues
    queues,          \* contents of every asyncio.Queue handed out by subscribe()
    fetches,         \* outbound requests issued so far
    published,       \* change batches passed to _notify_subscribers so far
    grp,             \* the callers that found the cache expired together
    subscribed_at,   \* per queue: value of published when it subscribed
    consumed,        \* per queue: batches taken out with get()
    last_fetch,      \* the last fetch_status call that returned: how it was served,
                     \* the changes it detected and the snapshot it returned
    \* ---- AutoSttManager ----
    auto_stt_manager, \* the singleton: "none" | "enabled" | "disabled"
    ensure_pc,       \* ensure_stt_for_live_channels: "idle" | "fetch"
    last_pass,       \* the last pass that ran: which one, the snapshot it
                     \* fetched, the channels it called start for, its result
    monitor,         \* _monitor_task: its position, the changes of the batch
                     \* still to handle, the batches taken, the changes handled
    stop_pc,         \* AutoSttManager.stop(): "idle" | "await_monitor" |
                     \* "stop_all" | "returned"
    announced,       \* the snapshot the poller published last
    \* ---- VodSttService (services/vod_stt_service.py, api/meetings.py) ----
    vod_tasks,       \* _tasks: meeting id -> the run whose SttTaskStatus is
                     \* registered (None: no entry)
    vod_run,         \* per process() run: its position, its SttTaskStatus, its
                     \* temp file and its local mp4_path
    meeting_status,  \* meetings table: id -> "ended" | "processing"
    stt_request,     \* per POST /{meeting_id}/stt request: position and reply
    dg_result,       \* the provider reply last handed to _parse_deepgram_response
    subtitles_table, \* rows of the subtitles table, in insertion order
    \* ---- SubtitleCorrectorService (services/subtitle_corrector.py) ----
    corrector,       \* the singleton: "none" | "enabled" | "disabled"
    ref_queue,       \* _queue: the _PendingSubtitle items waiting, oldest first
    ref_worker,      \* _worker_task: its position and the batch it collects
    ref_enqueued,    \* number of items put into _queue so far
    ref_last,        \* the batch _correct_batch handled last: the batch, the
                     \* rewriter's reply, the corrected events sent, the outcome
    \* ---- DeepgramService.transcribe (services/deepgram_stt.py) ----
    transcribe_call, \* one call of transcribe: its arguments, its position,
                     \* the replies of the API, the sleeps, how it ended
    \* ---- pure functions: dictionary.py, speaker_utils.py ----
    correct_call,    \* the last DictionaryService.correct(x) and its re-run
    group_call,      \* the last group_words_by_speaker(words) and its result
    \* ---- _run_with_reconnect and _watchdog on a clock ----
    rl,              \* the reconnect loop of one worker: position, delay,
                     \* the open session, the sleeps made, clock readings
    since_receive    \* time.monotonic() - _last_receive_time[channel_id] in
                     \* whole seconds, counted up to MaxSilence

hlsVars == <<seen_segments, hpc, new_segments, sent, origin, polls,
             prevResp, lastResp, lastRet, retCount, failed, failedEarlier,
             relisted, sentLate>>

bufVars == <<buffer, rpc, dgClock, pending, captions, addedRuns,
             lastInterim, sessionEnd, scenarioPos, prevStart, lastStart>>

svcVars == <<active_tasks, parsers, subtitle_counter, sentence_buffers,
             last_error, reconnect_count, subtitle_history, worker, session,
             bufobj, caller, nextTask, nextSess, nextFrag, callerError>>

hubVars == <<active_connections, room_history, handle, btask, next_id,
             passed, emitted, interims, corrections>>

statusVars == <<status, prev_status, age, lock, waiters, poller,
                subscribers, queues, fetches, published, grp,
                subscribed_at, consumed, last_fetch>>

autoVars == <<auto_stt_manager, ensure_pc, last_pass, monitor, stop_pc,
              announced>>

vodVars == <<vod_tasks, vod_run, meeting_status, stt_request, dg_result,
             subtitles_table>>

refVars == <<corrector, ref_queue, ref_worker, ref_enqueued, ref_last>>

asrVars == <<transcribe_call>>

textVars == <<correct_call, group_call>>

wdVars == <<rl, since_receive>>

\* the components added last, which none of the others touches
extVars == <<asrVars, textVars, wdVars>>

vars == <<hlsVars, bufVars, svcVars, hubVars, statusVars, autoVars, vodVars,
          refVars, extVars>>

\* what the actions of one component leave alone
notHls == <<bufVars, svcVars, hubVars, statusVars, autoVars, vodVars, refVars,
    extVars>>
notBuf == <<hlsVars, svcVars, hubVars, statusVars, autoVars, vodVars, refVars,
    extVars>>
notSvc == <<hlsVars, bufVars, hubVars, statusVars, autoVars, vodVars, refVars,
    extVars>>
notHub == <<hlsVars, bufVars, svcVars, statusVars, autoVars, vodVars, refVars,
    extVars>>
notStatus == <<hlsVars, bufVars, svcVars, hubVars, autoVars, vodVars, refVars,
    extVars>>
\* a pass of the supervisor starts workers of the lifecycle component
notAuto == <<hlsVars, bufVars, hubVars, statusVars, vodVars, refVars,
    extVars>>
\* the monitor also takes batches from the poller's queue
notMon == <<hlsVars, bufVars, hubVars, vodVars, refVars,
    extVars>>
notVod == <<hlsVars, bufVars, svcVars, hubVars, statusVars, autoVars, refVars,
    extVars>>
notRef == <<hlsVars, bufVars, svcVars, hubVars, statusVars, autoVars, vodVars,
    extVars>>
oldVars == <<hlsVars, bufVars, svcVars, hubVars, statusVars, autoVars, vodVars,
             refVars>>
notAsr == <<oldVars, textVars, wdVars>>
notText == <<oldVars, asrVars, wdVars>>
notWd == <<oldVars, asrVars, textVars>>

-----------------------------------------------------------------------------
(* Generic helpers *)

Range(s) == {s[i] : i \in DOMAIN s}

Count(s, x) == Cardinality({i \in DOMAIN s : s[i] = x})

SeqsUpTo(S, n) == UNION {[1..k -> S] : k \in 0..n}

\* dict.get(key, default)
Get(d, key, default) == IF key \in DOMAIN d THEN d[key] ELSE default

NoResp == <<"-">>

-----------------------------------------------------------------------------
(* HLS playlist reader and uploader                                         *)

MaxPolls == 2
MaxPlaylistLen == 2

URIs == {"a.ts", "b.ts"}

\* Every list fetch_segments can hand to get_new_segments.
Playlists == SeqsUpTo(URIs, MaxPlaylistLen)

HlsInit ==
    /\ seen_segments = {}
    /\ hpc = "poll"
    /\ new_segments = <<>>
    /\ sent = <<>>
    /\ origin = [u \in URIs |-> TRUE]
    /\ polls = 0
    /\ prevResp = NoResp
    /\ lastResp = NoResp
    /\ lastRet = <<>>
    /\ retCount = [u \in URIs |-> 0]
    /\ failed = {}
    /\ failedEarlier = {}
    /\ relisted = {}
    /\ sentLate = {}

\* A get_new_segments that forgets the seen-set filter.
GetNewSegmentsNoFilter(all_segments, seen) == all_segments

\* new_segments = [s for s in all_segments if s not in self._seen_segments]
GetNewSegments(all_segments, seen) ==
    SelectSeq(all_segments, LAMBDA s : s \notin seen)

\* fetch_segments returned resp; get_new_segments(resp); the for-loop starts.
SendPoll(resp) ==
    /\ hpc = "poll"
    /\ polls < MaxPolls
    /\ LET new == GetNewSegments(resp, seen_segments)
       IN /\ seen_segments' = seen_segments \cup Range(new)
          /\ new_segments' = new
          /\ hpc' = IF new = <<>> THEN "sleep" ELSE "download"
          /\ lastRet' = new
          /\ retCount' = [u \in URIs |-> retCount[u] + Count(new, u)]
    /\ polls' = polls + 1
    /\ prevResp' = lastResp
    /\ lastResp' = resp
    /\ failedEarlier' = failed
    /\ relisted' = relisted \cup {u \in failed : u \in Range(resp) /\ origin[u]}
    /\ UNCHANGED <<sent, origin, failed, sentLate>>

\* fetch_segments raised: "poll failed" is logged, the loop sleeps.
SendPollFail ==
    /\ hpc = "poll"
    /\ polls < MaxPolls
    /\ polls' = polls + 1
    /\ hpc' = "sleep"
    /\ failedEarlier' = failed
    /\ UNCHANGED <<seen_segments, new_segments, sent, origin, prevResp,
                   lastResp, lastRet, retCount, failed, relisted, sentLate>>

NextSegment(rest) == IF rest = <<>> THEN "sleep" ELSE "download"

\* http_client.get succeeded and dg_ws.send(ts_bytes) wrote the bytes.
SegmentSent ==
    /\ hpc = "download"
    /\ origin[Head(new_segments)]
    /\ sent' = Append(sent, Head(new_segments))
    /\ sentLate' = sentLate \cup ({Head(new_segments)} \cap failedEarlier)
    /\ new_segments' = Tail(new_segments)
    /\ hpc' = NextSegment(Tail(new_segments))
    /\ UNCHANGED <<seen_segments, origin, polls, prevResp, lastResp, lastRet,
                   retCount, failed, failedEarlier, relisted>>

\* http_client.get / raise_for_status raised: logged, the segment is skipped.
SegmentFetchFail ==
    /\ hpc = "download"
    /\ ~origin[Head(new_segments)]
    /\ failed' = failed \cup {Head(new_segments)}
    /\ new_segments' = Tail(new_segments)
    /\ hpc' = NextSegment(Tail(new_segments))
    /\ UNCHANGED <<seen_segments, sent, origin, polls, prevResp, lastResp,
                   lastRet, retCount, failedEarlier, relisted, sentLate>>

\* the download succeeded but dg_ws.send raised: logged, the segment is skipped.
SegmentSendFail ==
    /\ hpc = "download"
    /\ origin[Head(new_segments)]
    /\ new_segments' = Tail(new_segments)
    /\ hpc' = NextSegment(Tail(new_segments))
    /\ UNCHANGED <<seen_segments, sent, origin, polls, prevResp, lastResp,
                   lastRet, retCount, failed, failedEarlier, relisted,
                   sentLate>>

\* await asyncio.sleep(POLL_INTERVAL), then the next iteration.
SendSleep ==
    /\ hpc = "sleep"
    /\ hpc' = "poll"
    /\ UNCHANGED <<seen_segments, new_segments, sent, origin, polls, prevResp,
                   lastResp, lastRet, retCount, failed, failedEarlier, relisted,
                   sentLate>>

\* The video origin starts or stops serving segment u (environment).
OriginChange(u) ==
    /\ origin' = [origin EXCEPT ![u] = ~origin[u]]
    /\ UNCHANGED <<seen_segments, hpc, new_segments, sent, polls, prevResp,
                   lastResp, lastRet, retCount, failed, failedEarlier, relisted,
                   sentLate>>

-----------------------------------------------------------------------------
(* Texts are sequences of characters; a Hangul syllable is one character,   *)
(* written here in Latin letters: "yo" is the character U+C694, and so on.  *)

\* Python's None, where the other values are integers
None == -1

Space == " "

RECURSIVE Join(_)
\* " ".join(parts)
Join(parts) ==
    IF parts = <<>> THEN <<>>
    ELSE IF Len(parts) = 1 THEN parts[1]
    ELSE parts[1] \o <<Space>> \o Join(Tail(parts))

RECURSIVE RStrip(_)
\* str.rstrip()
RStrip(t) ==
    IF t = <<>> THEN <<>>
    ELSE IF t[Len(t)] = Space THEN RStrip(SubSeq(t, 1, Len(t) - 1))
    ELSE t

RECURSIVE LStrip(_)
LStrip(t) ==
    IF t = <<>> THEN <<>>
    ELSE IF t[1] = Space THEN LStrip(Tail(t))
    ELSE t

\* str.strip()
Strip(t) == LStrip(RStrip(t))

\* str.endswith(suffix)
EndsWith(t, suffix) ==
    /\ Len(t) >= Len(suffix)
    /\ SubSeq(t, Len(t) - Len(suffix) + 1, Len(t)) = suffix

StartsWith(t, prefix) ==
    /\ Len(t) >= Len(prefix)
    /\ SubSeq(t, 1, Len(prefix)) = prefix

\* A replace that stops after the leftmost occurrence.
ReplaceFirstOnly(t, wrong, correct) ==
    IF wrong = <<>> THEN t
    ELSE LET at == {i \in 1..(Len(t) - Len(wrong) + 1) :
                       SubSeq(t, i, i + Len(wrong) - 1) = wrong}
         IN  IF at = {} THEN t
             ELSE LET i == CHOOSE j \in at : \A x \in at : j <= x
                  IN  SubSeq(t, 1, i - 1) \o correct
                          \o SubSeq(t, i + Len(wrong), Len(t))

RECURSIVE Replace(_, _, _)
\* str.replace(wrong, correct): leftmost, non-overlapping occurrences.
Replace(t, wrong, correct) ==
    IF t = <<>> \/ wrong = <<>> THEN t
    ELSE IF StartsWith(t, wrong)
         THEN correct \o Replace(SubSeq(t, Len(wrong) + 1, Len(t)), wrong, correct)
         ELSE <<t[1]>> \o Replace(Tail(t), wrong, correct)

\* Entries of _PARLIAMENT_ENTRIES that the model's alphabet can spell, in
\* declaration order: "uiwon nim" -> "uiwonnim", "sanae reul" -> "sanhoe reul".
DictEntries ==
    << << <<"sa", "nae", "reul">>, <<"san", "hoe", "reul">> >>,
       << <<"ui", "won", Space, "nim">>, <<"ui", "won", "nim">> >> >>

RECURSIVE CorrectFrom(_, _)
CorrectFrom(t, i) ==
    IF i > Len(DictEntries) THEN t
    ELSE CorrectFrom(Replace(t, DictEntries[i][1], DictEntries[i][2]), i + 1)

\* DictionaryService.correct
DictCorrect(t) == IF t = <<>> THEN t ELSE CorrectFrom(t, 1)

RECURSIVE NoSpaces(_)
\* a text without its whitespace (comparison modulo whitespace)
NoSpaces(t) ==
    IF t = <<>> THEN <<>>
    ELSE IF t[1] = Space THEN NoSpaces(Tail(t))
    ELSE <<t[1]>> \o NoSpaces(Tail(t))

RECURSIVE Concat(_)
Concat(ts) == IF ts = <<>> THEN <<>> ELSE ts[1] \o Concat(Tail(ts))

-----------------------------------------------------------------------------
(* _SentenceBuffer                                                          *)

FlushLen == 40

\* _SentenceBuffer.__init__ / clear(); part_speakers records, for each part,
\* the speaker of the run it came from, and runs records the arguments of
\* every add() since the last clear().
EmptyBuffer ==
    [parts |-> <<>>, speaker |-> None, start_time |-> 0, end_time |-> 0,
     conf_sum |-> 0, conf_count |-> 0, part_speakers |-> <<>>, runs |-> <<>>]

\* _SentenceBuffer.text
BufText(b) == Join(b.parts)

\* An add that keeps only the newest part.
BufAddKeepsNewest(b, run) ==
    [parts |-> <<run.text>>,
     speaker |-> IF run.speaker # None THEN run.speaker ELSE b.speaker,
     start_time |-> IF b.parts = <<>> THEN run.start ELSE b.start_time,
     end_time |-> run.end,
     conf_sum |-> b.conf_sum + run.confidence,
     conf_count |-> b.conf_count + 1,
     part_speakers |-> <<run.speaker>>,
     runs |-> Append(b.runs, run)]

\* An add that takes the start time of every run, not only of the first.
BufAddRestartsClock(b, run) ==
    [parts |-> Append(b.parts, run.text),
     speaker |-> IF run.speaker # None THEN run.speaker ELSE b.speaker,
     start_time |-> run.start,
     end_time |-> run.end,
     conf_sum |-> b.conf_sum + run.confidence,
     conf_count |-> b.conf_count + 1,
     part_speakers |-> Append(b.part_speakers, run.speaker),
     runs |-> Append(b.runs, run)]

\* _SentenceBuffer.add
BufAdd(b, run) ==
    [parts |-> Append(b.parts, run.text),
     speaker |-> IF run.speaker # None THEN run.speaker ELSE b.speaker,
     start_time |-> IF b.parts = <<>> THEN run.start ELSE b.start_time,
     end_time |-> run.end,
     conf_sum |-> b.conf_sum + run.confidence,
     conf_count |-> b.conf_count + 1,
     part_speakers |-> Append(b.part_speakers, run.speaker),
     runs |-> Append(b.runs, run)]

\* A should_flush without the Korean sentence-ending heuristic.
ShouldFlushPunctuationOnly(b) ==
    LET text == BufText(b)
        stripped == RStrip(text)
    IN  /\ text # <<>>
        /\ stripped # <<>>
        /\ \/ stripped[Len(stripped)] \in {".", "?", "!", ","}
           \/ Len(text) > FlushLen

\* _SentenceBuffer.should_flush
ShouldFlush(b) ==
    LET text == BufText(b)
        stripped == RStrip(text)
    IN  /\ text # <<>>
        /\ stripped # <<>>
        /\ \/ stripped[Len(stripped)] \in {".", "?", "!"}
           \/ stripped[Len(stripped)] = ","
           \/ EndsWith(stripped, <<"ni", "da">>)
           \/ EndsWith(stripped, <<"seup", "ni", "da">>)
           \/ EndsWith(stripped, <<"kka">>)
           \/ stripped[Len(stripped)] \in {"yo", "da"}
           \/ Len(text) > FlushLen

-----------------------------------------------------------------------------
(* speaker_utils.group_words_by_speaker                                     *)

\* Confidences are percentages; the pool below keeps every mean integral.
Mean(sum, count) == IF count = 0 THEN 0 ELSE sum \div count

GroupOf(st) ==
    [speaker |-> st.current_speaker, text |-> Join(st.current_words),
     confidence |-> Mean(st.conf_sum, st.conf_count),
     start |-> st.start, end |-> st.end]

RECURSIVE GroupFold(_, _)
\* the for-loop over words
GroupFold(st, ws) ==
    IF ws = <<>> THEN st
    ELSE LET w == ws[1]
             brk == w.speaker # st.current_speaker /\ st.current_words # <<>>
             st1 == IF brk
                    THEN [groups |-> Append(st.groups, GroupOf(st)),
                          current_speaker |-> w.speaker,
                          current_words |-> <<>>,
                          conf_sum |-> 0, conf_count |-> 0,
                          start |-> w.start, end |-> st.end]
                    ELSE st
             word_text == Get(w, "punctuated_word", Get(w, "word", <<>>))
             st2 == [st1 EXCEPT !.current_words = Append(@, word_text),
                                !.conf_sum = @ + w.confidence,
                                !.conf_count = @ + 1,
                                !.end = w.end]
         IN GroupFold(st2, Tail(ws))

\* A grouping that forgets the group still open at the end of the words.
GroupWordsDropsLast(words) ==
    IF words = <<>> THEN <<>>
    ELSE GroupFold([groups |-> <<>>,
                    current_speaker |-> words[1].speaker,
                    current_words |-> <<>>,
                    conf_sum |-> 0, conf_count |-> 0,
                    start |-> words[1].start,
                    end |-> words[1].end], words).groups

\* group_words_by_speaker
GroupWordsBySpeaker(words) ==
    IF words = <<>> THEN <<>>
    ELSE LET st == GroupFold([groups |-> <<>>,
                              current_speaker |-> words[1].speaker,
                              current_words |-> <<>>,
                              conf_sum |-> 0, conf_count |-> 0,
                              start |-> words[1].start,
                              end |-> words[1].end], words)
         IN IF st.current_words # <<>>
            THEN Append(st.groups, GroupOf(st))
            ELSE st.groups

-----------------------------------------------------------------------------
(* Frames the ASR provider can send                                         *)

MaxRuns == 4

LongWordLen == 21

Word(t, sp, conf, off) ==
    [word |-> t, speaker |-> sp, confidence |-> conf, start |-> off, end |-> off + 1]

Frame(type, has_alt, is_final, words, transcript, conf, dur) ==
    [type |-> type, has_alt |-> has_alt, is_final |-> is_final, words |-> words,
     transcript |-> transcript, confidence |-> conf, duration |-> dur]

AnNyeongHaSeYo == <<"an", "nyeong", "ha", "se", "yo">>
ONeulEun == <<"o", "neul", "eun">>
HoeUiReul == <<"hoe", "ui", "reul">>
SiJakHaGetSeupNiDa == <<"si", "jak", "ha", "get", "seup", "ni", "da", ".">>
Ne == <<"ne", ",">>
JoSeupNiDa == <<"jo", "seup", "ni", "da", ".">>
UiWonNim == <<"ui", "won", Space, "nim">>
LongWord == [i \in 1..LongWordLen |-> "x"]

\* Frames 1..4 are the final results of the sentence-assembly scenario.
FramePool ==
    << Frame("Results", TRUE, TRUE, <<Word(AnNyeongHaSeYo, 0, 90, 0)>>, <<>>, 90, 1),
       Frame("Results", TRUE, TRUE,
             <<Word(ONeulEun, 0, 80, 0), Word(HoeUiReul, 0, 100, 1)>>, <<>>, 90, 2),
       Frame("Results", TRUE, TRUE, <<Word(SiJakHaGetSeupNiDa, 0, 100, 0)>>, <<>>, 100, 1),
       Frame("Results", TRUE, TRUE,
             <<Word(Ne, 1, 60, 0), Word(JoSeupNiDa, 1, 80, 1)>>, <<>>, 70, 2),
       \* a speaker change in the middle of a frame, no punctuation
       Frame("Results", TRUE, TRUE,
             <<Word(<<"geu">>, 0, 80, 0), Word(<<"geon">>, 1, 100, 1)>>, <<>>, 90, 2),
       \* a final result without a words array
       Frame("Results", TRUE, TRUE, <<>>, <<Space>> \o UiWonNim, 80, 1),
       \* one long unpunctuated word
       Frame("Results", TRUE, TRUE, <<Word(LongWord, 0, 100, 0)>>, <<>>, 100, 1),
       \* an interim result
       Frame("Results", TRUE, FALSE, <<>>, <<"an", "nyeong", "ha">>, 50, 1),
       \* a frame of another type, and a Results frame without alternatives
       Frame("SpeechStarted", FALSE, FALSE, <<>>, <<>>, 0, 0),
       Frame("Results", FALSE, TRUE, <<>>, <<>>, 0, 0) >>

Scenario == <<1, 2, 3, 4>>

\* Word and frame times are offsets from the start of the audio of the session.
Stamp(words, clock) ==
    [i \in DOMAIN words |->
        [words[i] EXCEPT !.start = @ + clock, !.end = @ + clock]]

\* lines 439-458: the speaker groups of a final frame
SpeakerGroups(f, clock) ==
    IF f.words # <<>> THEN GroupWordsBySpeaker(Stamp(f.words, clock))
    ELSE IF Strip(f.transcript) = <<>> THEN <<>>
    ELSE << [speaker |-> None, text |-> Strip(f.transcript),
             confidence |-> f.confidence, start |-> clock,
             end |-> clock + f.duration] >>

-----------------------------------------------------------------------------
(* ChannelSttService._receive_transcripts and _emit_subtitle                *)

BufInit ==
    /\ buffer = EmptyBuffer
    /\ rpc = "idle"
    /\ dgClock = 0
    /\ pending = <<>>
    /\ captions = <<>>
    /\ addedRuns = <<>>
    /\ lastInterim = <<>>
    /\ sessionEnd = "none"
    /\ scenarioPos = -1
    /\ prevStart = -1
    /\ lastStart = -1

\* A receiver that never flushes on a speaker change.
SpeakerChangedNever(b, speaker) == FALSE

\* lines 476-481: the run's speaker differs from the buffer's
SpeakerChanged(b, speaker) ==
    /\ b.parts # <<>>
    /\ speaker # None
    /\ b.speaker # None
    /\ speaker # b.speaker

\* kiwipiepy is a third-party model whose output the repository does not
\* determine; the model follows the branch taken when _kiwi is None.
SpacedText(raw_text) == raw_text

\* "speaker N+1", or null
SpeakerLabel(b) == IF b.speaker # None THEN b.speaker + 1 ELSE None

\* the subtitle built by _emit_subtitle; confidence is conf_sum / conf_count
Caption(b) ==
    [text |-> DictCorrect(SpacedText(BufText(b))),
     raw |-> BufText(b),
     start_time |-> b.start_time,
     end_time |-> b.end_time,
     confidence |-> [num |-> b.conf_sum, den |-> b.conf_count],
     speaker |-> SpeakerLabel(b),
     part_speakers |-> b.part_speakers,
     runs |-> b.runs]

RECURSIVE Advance(_, _, _)
\* lines 460-489, run from group G[1] up to the next _emit_subtitle call (the
\* coroutine's next suspension) or to the end of the groups.
Advance(b, G, added) ==
    IF G = <<>> THEN [buf |-> b, pend |-> <<>>, pc |-> "recv", added |-> added,
                      emit |-> FALSE]
    ELSE LET g == G[1]
         IN IF g.text = <<>> THEN Advance(b, Tail(G), added)
            ELSE IF SpeakerChanged(b, g.speaker)
            THEN [buf |-> b, pend |-> G, pc |-> "emit_change", added |-> added,
                  emit |-> TRUE]
            ELSE LET b2 == BufAdd(b, g)
                 IN IF ShouldFlush(b2)
                    THEN [buf |-> b2, pend |-> Tail(G), pc |-> "emit_flush",
                          added |-> Append(added, g.text), emit |-> TRUE]
                    ELSE Advance(b2, Tail(G), Append(added, g.text))

\* _emit_subtitle up to manager.broadcast_subtitle's history append
Emit(b) ==
    /\ captions' = Append(captions, Caption(b))
    /\ prevStart' = lastStart
    /\ lastStart' = b.start_time

ApplyStep(r) ==
    /\ buffer' = r.buf
    /\ pending' = r.pend
    /\ rpc' = r.pc
    /\ addedRuns' = r.added
    /\ IF r.emit THEN Emit(r.buf)
       ELSE UNCHANGED <<captions, prevStart, lastStart>>

ScenarioNext(i) ==
    IF /\ scenarioPos >= 0
       /\ scenarioPos < Len(Scenario)
       /\ Scenario[scenarioPos + 1] = i
    THEN scenarioPos + 1
    ELSE -1

\* lines 393-394: setdefault + buffer.clear(); the provider's clock starts at
\* 0 with every websocket connection.
RecvStart ==
    /\ rpc = "idle"
    /\ buffer' = EmptyBuffer
    /\ rpc' = "recv"
    /\ dgClock' = 0
    /\ pending' = <<>>
    /\ captions' = <<>>
    /\ addedRuns' = <<>>
    /\ lastInterim' = <<>>
    /\ sessionEnd' = "none"
    /\ scenarioPos' = 0
    /\ UNCHANGED <<prevStart, lastStart>>

\* lines 401-413: a frame that is not a Results frame with alternatives
RecvIgnored(i) ==
    /\ rpc = "recv"
    /\ FramePool[i].type # "Results" \/ ~FramePool[i].has_alt
    /\ scenarioPos' = ScenarioNext(i)
    /\ UNCHANGED <<buffer, rpc, dgClock, pending, captions, addedRuns,
                   lastInterim, sessionEnd, prevStart, lastStart>>

\* lines 416-437: an interim result
RecvInterim(i) ==
    /\ rpc = "recv"
    /\ FramePool[i].type = "Results" /\ FramePool[i].has_alt
    /\ ~FramePool[i].is_final
    /\ LET t == Strip(FramePool[i].transcript)
       IN lastInterim' = IF t # <<>> /\ Len(t) > 2
                         THEN DictCorrect(SpacedText(t))
                         ELSE lastInterim
    /\ scenarioPos' = ScenarioNext(i)
    /\ UNCHANGED <<buffer, rpc, dgClock, pending, captions, addedRuns,
                   sessionEnd, prevStart, lastStart>>

\* lines 439-489: a final result, up to the first _emit_subtitle
RecvFinal(i) ==
    /\ rpc = "recv"
    /\ FramePool[i].type = "Results" /\ FramePool[i].has_alt
    /\ FramePool[i].is_final
    /\ LET f == FramePool[i]
           groups == SpeakerGroups(f, dgClock)
       IN /\ Len(addedRuns) + Len(groups) <= MaxRuns
          /\ ApplyStep(Advance(buffer, groups, addedRuns))
          /\ dgClock' = dgClock + (IF f.words # <<>> THEN Len(f.words)
                                   ELSE f.duration)
    /\ scenarioPos' = ScenarioNext(i)
    /\ UNCHANGED <<lastInterim, sessionEnd>>

\* lines 483-489: _emit_subtitle returned; buffer.clear(), then the rest of
\* the groups up to the next _emit_subtitle
RecvResume ==
    /\ rpc \in {"emit_change", "emit_flush"}
    /\ ApplyStep(Advance(EmptyBuffer, pending, addedRuns))
    /\ UNCHANGED <<dgClock, lastInterim, sessionEnd, scenarioPos>>

\* lines 494-497: the async for ended without raising
RecvEndGraceful ==
    /\ rpc = "recv"
    /\ IF buffer.parts # <<>>
       THEN /\ Emit(buffer)
            /\ rpc' = "emit_final"
            /\ UNCHANGED sessionEnd
       ELSE /\ rpc' = "idle"
            /\ sessionEnd' = "graceful"
            /\ UNCHANGED <<captions, prevStart, lastStart>>
    /\ UNCHANGED <<buffer, dgClock, pending, addedRuns, lastInterim,
                   scenarioPos>>

\* line 497: the final _emit_subtitle returned; buffer.clear()
RecvFinalResume ==
    /\ rpc = "emit_final"
    /\ buffer' = EmptyBuffer
    /\ rpc' = "idle"
    /\ sessionEnd' = "graceful"
    /\ UNCHANGED <<dgClock, pending, captions, addedRuns, lastInterim,
                   scenarioPos, prevStart, lastStart>>

\* the async for raised (the websocket closed with an error): no flush
RecvEndError ==
    /\ rpc = "recv"
    /\ rpc' = "idle"
    /\ sessionEnd' = "error"
    /\ UNCHANGED <<buffer, dgClock, pending, captions, addedRuns, lastInterim,
                   scenarioPos, prevStart, lastStart>>

\* the receiver task was cancelled at its suspension point: no flush
RecvCancelled ==
    /\ rpc \in {"recv", "emit_change", "emit_flush", "emit_final"}
    /\ rpc' = "idle"
    /\ pending' = <<>>
    /\ sessionEnd' = "cancelled"
    /\ UNCHANGED <<buffer, dgClock, captions, addedRuns, lastInterim,
                   scenarioPos, prevStart, lastStart>>

-----------------------------------------------------------------------------
(* ChannelSttService: start / stop / stop_all, the reconnect loop, the      *)
(* sub-tasks of a session, and the hub's caption history.  Finished tasks   *)
(* and sessions are forgotten (their record returns to its initial value);  *)
(* a fragment is "frag", or "held" once the worker holding it unflushed was *)
(* cancelled by stop.                                                       *)

MaxTasks == 2
MaxSessions == 2
MaxFrags == 2

MAX_RECONNECT_DELAY == 30
HISTORY_SIZE == 200

Channels == {"ch14", "ch8"}
\* the channel the callers of Spec and SpecLoop ask for
Requested == {"ch14"}
Callers == {"http", "monitor"}
Tasks == 1..MaxTasks
Sessions == 1..MaxSessions
SubNames == {"sender", "receiver", "keepalive", "watchdog"}

\* settings.deepgram_api_key is configured (auto_stt.py:48 starts nothing
\* otherwise).
deepgram_api_key == TRUE

IdleCaller ==
    [op |-> "idle", pc |-> "idle", ch |-> "-", task |-> None, todo |-> <<>>]

NoWorker ==
    [state |-> "none", cancel |-> FALSE, delay |-> 1, ch |-> "-",
     cur |-> None, result |-> "none"]

NoSession ==
    [ch |-> "-", ws |-> "none", subs |-> [n \in SubNames |-> "none"],
     rpc |-> "none", buf |-> None, pend |-> <<>>]

SvcInit ==
    /\ active_tasks = [c \in Channels |-> None]
    /\ parsers = [c \in Channels |-> None]
    /\ subtitle_counter = [c \in Channels |-> None]
    /\ sentence_buffers = [c \in Channels |-> None]
    /\ last_error = [c \in Channels |-> "none"]
    /\ reconnect_count = [c \in Channels |-> 0]
    /\ subtitle_history = [c \in Channels |-> <<>>]
    /\ worker = [t \in Tasks |-> NoWorker]
    /\ session = [se \in Sessions |-> NoSession]
    /\ bufobj = [se \in Sessions |-> <<>>]
    /\ caller = [k \in Callers |-> IdleCaller]
    /\ nextTask = 1
    /\ nextSess = 1
    /\ nextFrag = 1
    /\ callerError = {}

\* The lifecycle state as one record, and its installation as the next state.
Svc ==
    [active_tasks |-> active_tasks, parsers |-> parsers,
     subtitle_counter |-> subtitle_counter,
     sentence_buffers |-> sentence_buffers, last_error |-> last_error,
     reconnect_count |-> reconnect_count, subtitle_history |-> subtitle_history,
     worker |-> worker, session |-> session, bufobj |-> bufobj,
     caller |-> caller, nextTask |-> nextTask, nextSess |-> nextSess,
     nextFrag |-> nextFrag, callerError |-> callerError]

Install(s) ==
    /\ active_tasks' = s.active_tasks
    /\ parsers' = s.parsers
    /\ subtitle_counter' = s.subtitle_counter
    /\ sentence_buffers' = s.sentence_buffers
    /\ last_error' = s.last_error
    /\ reconnect_count' = s.reconnect_count
    /\ subtitle_history' = s.subtitle_history
    /\ worker' = s.worker
    /\ session' = s.session
    /\ bufobj' = s.bufobj
    /\ caller' = s.caller
    /\ nextTask' = s.nextTask
    /\ nextSess' = s.nextSess
    /\ nextFrag' = s.nextFrag
    /\ callerError' = s.callerError

\* Channel ids with an entry in _active_tasks, as stop_all lists them.
KeyList(s) ==
    LET K == {c \in Channels : s.active_tasks[c] # None} IN
    CHOOSE q \in [1..Cardinality(K) -> K] : Range(q) = K

\* start, lines 180-195: the part after the optional stop.
StartTail(s, k, c) ==
    IF ~deepgram_api_key
    THEN [s EXCEPT !.caller[k] = IdleCaller]
    ELSE LET t == s.nextTask IN
         [s EXCEPT !.parsers[c] = t,
                   !.subtitle_counter[c] = 0,
                   !.worker[t] = [NoWorker EXCEPT !.state = "connect", !.ch = c],
                   !.active_tasks[c] = t,
                   !.nextTask = t + 1,
                   !.caller[k] = IdleCaller]

RECURSIVE StopHead(_, _, _)

\* stop has returned to start (line 178), to stop_all (line 224) or to the
\* caller.
StopReturn(s, k, c) ==
    LET me == s.caller[k]
    IN  CASE me.op = "start" -> StartTail(s, k, c)
          [] me.op = "stop_all" /\ me.todo # <<>> ->
                StopHead([s EXCEPT !.caller[k].todo = Tail(me.todo)],
                         k, Head(me.todo))
          [] OTHER -> [s EXCEPT !.caller[k] = IdleCaller]

\* stop, lines 211-218.
StopTail(s, k, c) ==
    LET buf == s.sentence_buffers[c] IN
    StopReturn([s EXCEPT !.subtitle_counter[c] = None,
                         !.sentence_buffers[c] = None,
                         !.bufobj = IF buf # None
                                    THEN [@ EXCEPT ![buf] = <<>>] ELSE @,
                         !.subtitle_history[c] = <<>>],
               k, c)

\* stop, lines 207-209: suspends in parser.close() when there is a parser.
StopParser(s, k, c) ==
    IF s.parsers[c] # None
    THEN [s EXCEPT !.parsers[c] = None,
                   !.caller[k].pc = "await_close",
                   !.caller[k].ch = c]
    ELSE StopTail(s, k, c)

\* stop, lines 199-205: suspends in `await task` when the task is not done.
StopHead(s, k, c) ==
    LET task == s.active_tasks[c]
        s1 == [s EXCEPT !.active_tasks[c] = None, !.caller[k].ch = c]
    IN  IF task # None /\ s.worker[task].state # "done"
        THEN [s1 EXCEPT !.worker[task].cancel = TRUE,
                        !.caller[k].pc = "await_task",
                        !.caller[k].task = task]
        ELSE StopParser(s1, k, c)

\* task.cancel() wakes the task with CancelledError in the loop iteration
\* that follows: a cancellation is delivered before anything else goes on.
NoCancelPending == \A t \in Tasks : ~worker[t].cancel

\* Callers behave alike: of two idle callers the first one makes the call.
MayCall(k) ==
    /\ NoCancelPending
    /\ caller[k].op = "idle"
    /\ k = "monitor" => caller["http"].op # "idle"

\* start, lines 172-195, up to its first suspension or its return.
StartCall(s, k, c) ==
    LET s0 == [s EXCEPT !.caller[k] = [IdleCaller EXCEPT !.op = "start",
                                           !.pc = "run", !.ch = c]]
    IN  IF s.active_tasks[c] # None
        THEN StopHead(s0, k, c) ELSE StartTail(s0, k, c)

\* A caller enters start(c, url).
Start(k, c) ==
    /\ MayCall(k)
    /\ nextTask + Cardinality({j \in Callers : caller[j].op = "start"})
           <= MaxTasks
    /\ Install(StartCall(Svc, k, c))

\* A caller enters stop(c).
Stop(k, c) ==
    /\ MayCall(k)
    /\ Install(StopHead([Svc EXCEPT !.caller[k] =
                            [IdleCaller EXCEPT !.op = "stop", !.pc = "run",
                                               !.ch = c]],
                        k, c))

\* A caller enters stop_all().
StopAll(k) ==
    /\ MayCall(k)
    /\ LET channel_ids == KeyList(Svc) IN
       IF channel_ids = <<>>
       THEN Install(Svc)
       ELSE Install(StopHead([Svc EXCEPT !.caller[k] =
                                [IdleCaller EXCEPT !.op = "stop_all",
                                     !.pc = "run",
                                     !.todo = Tail(channel_ids)]],
                             k, Head(channel_ids)))

\* `await task` of line 203 completes: the task has finished.  A task that
\* finished with an exception other than CancelledError raises it here.
TaskAwaited(s, k) ==
    LET t == s.caller[k].task
        s0 == [s EXCEPT !.worker[t] = [NoWorker EXCEPT !.state = "done"],
                        !.caller[k].pc = "run",
                        !.caller[k].task = None]
    IN  IF s.worker[t].result = "error"
        THEN [s0 EXCEPT !.callerError = @ \cup {k},
                        !.caller[k] = IdleCaller]
        ELSE StopParser(s0, k, s.caller[k].ch)

StopTaskAwaited(k) ==
    /\ NoCancelPending
    /\ caller[k].pc = "await_task"
    /\ worker[caller[k].task].state = "done"
    /\ Install(TaskAwaited(Svc, k))

\* `await parser.close()` of line 209 completes.
ParserClosed(s, k) ==
    StopTail([s EXCEPT !.caller[k].pc = "run"], k, s.caller[k].ch)

StopParserClosed(k) ==
    /\ NoCancelPending
    /\ caller[k].pc = "await_close"
    /\ Install(ParserClosed(Svc, k))

CloseKinds == {"closed_ok", "closed_err"}

\* dg_ws.close(): how the connection ends decides how `async for` ends.
CloseWs(ws, kind) == IF ws = "open" THEN kind ELSE ws

\* The task has finished; only its outcome is left to the awaiting stop.
Finished(result) == [NoWorker EXCEPT !.state = "done", !.result = result]

\* _run_with_reconnect, lines 272-275, with the task ending instead.
SessionErrorEndsTask(s, t) ==
    [s EXCEPT !.worker[t] = Finished("error")]

\* _run_with_reconnect, lines 272-275: `except Exception` of the loop.
SessionError(s, t) ==
    LET c == s.worker[t].ch IN
    [s EXCEPT !.last_error[c] = "Exception",
              !.reconnect_count[c] = @ + 1,
              !.worker[t].state = "sleep"]

\* _run, lines 305-326: the websocket is connected, the four sub-tasks are
\* created and the task waits in asyncio.wait.
WorkerConnected(t) ==
    /\ worker[t].state = "connect"
    /\ NoCancelPending
    /\ nextSess <= MaxSessions
    /\ Install([Svc EXCEPT
          !.session[nextSess] =
              [NoSession EXCEPT !.ch = worker[t].ch, !.ws = "open",
                                !.subs = [n \in SubNames |-> "running"],
                                !.rpc = "begin"],
          !.worker[t].state = "wait",
          !.worker[t].cur = nextSess,
          !.nextSess = @ + 1])

\* _run, line 305 raises (connect failure); `finally` closes the http client.
WorkerConnectFailed(t) ==
    /\ worker[t].state = "connect"
    /\ NoCancelPending
    /\ nextSess <= MaxSessions
    /\ Install(SessionError([Svc EXCEPT !.nextSess = @ + 1], t))

\* _run, lines 323-336: asyncio.wait returns because a sub-task finished; the
\* pending ones are cancelled (they end at the await they are suspended in,
\* without a further effect), an exception is only logged, and leaving the
\* `async with` closes the websocket.  _run returns; _run_with_reconnect,
\* lines 266-268, then sleeps (line 277).
WorkerWaitReturned(t) ==
    /\ worker[t].state = "wait"
    /\ NoCancelPending
    /\ LET se == worker[t].cur IN
       /\ \E n \in SubNames : session[se].subs[n] \in {"done", "failed"}
       /\ Install([Svc EXCEPT
             !.session[se] = NoSession,
             !.last_error[worker[t].ch] = "session_ended_normally",
             !.worker[t].cur = None,
             !.worker[t].delay = 1,
             !.worker[t].state = "sleep"])

\* _run_with_reconnect, lines 277-278, and the next iteration calls _run.
WorkerSlept(t) ==
    /\ worker[t].state = "sleep"
    /\ NoCancelPending
    /\ Install([Svc EXCEPT
          !.worker[t].delay = IF @ * 2 < MAX_RECONNECT_DELAY
                              THEN @ * 2 ELSE MAX_RECONNECT_DELAY,
          !.worker[t].state = "connect"])

\* The parts of a buffer, marked as held back at a cancellation.
Held(parts) == [i \in DOMAIN parts |-> "held"]

\* The sub-tasks of a session whose asyncio.wait was cancelled: nothing
\* awaits or cancels them any more.  The receiver goes on as before; the
\* others are "detached" (running, with no effect on the state kept here).
Detach(sess) ==
    IF sess.subs["receiver"] # "running"
    THEN NoSession
    ELSE [sess EXCEPT !.subs = [n \in SubNames |->
                                  IF n = "receiver" THEN "running"
                                                    ELSE "detached"]]

\* task.cancel() takes effect: CancelledError is raised at the await the task
\* is suspended in.  In asyncio.wait it leaves the sub-tasks running and the
\* `async with` exit closes the websocket (suspending); in _run it is caught
\* by line 269; in asyncio.sleep (line 277) it ends the task as cancelled.
WorkerCancelled(t, kind) ==
    /\ worker[t].cancel
    /\ worker[t].state \in {"connect", "wait", "sleep"}
    /\ kind = "closed_err" => worker[t].state = "wait"
    /\ LET se == worker[t].cur IN
       CASE worker[t].state = "wait" ->
                LET b == session[se].buf
                    waiting == /\ session[se].subs["receiver"] = "running"
                               /\ session[se].rpc = "iter"
                IN  Install([Svc EXCEPT
                       !.session[se] = Detach([@ EXCEPT !.ws = CloseWs(@, kind)]),
                       !.bufobj = IF waiting THEN [@ EXCEPT ![b] = Held(@)]
                                             ELSE @,
                       !.worker[t].cancel = FALSE,
                       !.worker[t].state = "closing"])
         [] worker[t].state = "sleep" ->
                Install([Svc EXCEPT !.worker[t] = Finished("cancelled")])
         [] OTHER ->
                Install([Svc EXCEPT !.worker[t] = Finished("returned")])

\* The websocket close of the cancelled _run completes; line 336; line 271.
WorkerClosed(t) ==
    /\ NoCancelPending
    /\ worker[t].state = "closing"
    /\ Install([Svc EXCEPT !.worker[t] = Finished("returned")])

\* The payload built from the buffered parts: "held" when it carries a part
\* held back at a cancellation, "caption" otherwise.
SubtitleData(parts) ==
    IF "held" \in Range(parts) THEN "held" ELSE "caption"

\* _emit_subtitle up to its first suspension: counter (506-507), and in
\* broadcast_subtitle the history append and trim (websocket.py 85-90).
EmitSubtitle(s, c, parts) ==
    LET h == Append(s.subtitle_history[c], SubtitleData(parts))
        counter == IF s.subtitle_counter[c] = None
                   THEN 0 ELSE s.subtitle_counter[c]
    IN  [s EXCEPT !.subtitle_counter[c] = counter + 1,
                  !.subtitle_history[c] =
                      IF Len(h) > HISTORY_SIZE
                      THEN SubSeq(h, Len(h) - HISTORY_SIZE + 1, Len(h)) ELSE h]

Runs(se, n) == NoCancelPending /\ session[se].subs[n] = "running"

\* A sub-task of a session finishes; a session nothing runs in is forgotten.
SubEnds(s, se, n, how) ==
    LET subs == [s.session[se].subs EXCEPT ![n] = how] IN
    IF \A m \in SubNames : subs[m] # "running"
    THEN [s EXCEPT !.session[se] = NoSession]
    ELSE [s EXCEPT !.session[se].subs = subs,
                   !.session[se].rpc = IF n = "receiver" THEN "none" ELSE @]

\* _receive_transcripts, lines 393-394.
ReceiverBegin(se) ==
    /\ Runs(se, "receiver")
    /\ session[se].rpc = "begin"
    /\ LET c == session[se].ch
           b == IF sentence_buffers[c] = None THEN se ELSE sentence_buffers[c]
       IN  Install([Svc EXCEPT !.sentence_buffers[c] = b,
                               !.bufobj[b] = <<>>,
                               !.session[se].buf = b,
                               !.session[se].rpc = "iter"])

\* _receive_transcripts, lines 396-489, for a final result with one run.
\* kind "hold": the run is added and no flush condition is met; "flush": it
\* is added and should_flush holds (line 488); "change": it has another
\* speaker than the non-empty buffer (line 482).
ReceiverFragment(se, kind) ==
    /\ Runs(se, "receiver")
    /\ session[se].rpc = "iter"
    /\ session[se].ws = "open"
    /\ nextFrag <= MaxFrags
    /\ kind = "change" => bufobj[session[se].buf] # <<>>
    /\ LET c == session[se].ch
           b == session[se].buf
           s1 == [Svc EXCEPT !.nextFrag = @ + 1]
       IN  CASE kind = "hold" ->
                   Install([s1 EXCEPT !.bufobj[b] = Append(@, "frag")])
             [] kind = "flush" ->
                   Install(EmitSubtitle(
                       [s1 EXCEPT !.bufobj[b] = Append(@, "frag"),
                                  !.session[se].rpc = "emit"],
                       c, Append(bufobj[b], "frag")))
             [] OTHER ->
                   Install(EmitSubtitle(
                       [s1 EXCEPT !.session[se].pend = <<"frag">>,
                                  !.session[se].rpc = "emit"],
                       c, bufobj[b]))

\* _emit_subtitle returns to line 483 or 489: buffer.clear(); after line 483
\* the waiting run is added (485); flush: should_flush holds for it (488).
ReceiverResume(se, flush) ==
    /\ Runs(se, "receiver")
    /\ session[se].rpc = "emit"
    /\ flush => session[se].pend # <<>>
    /\ LET c == session[se].ch
           b == session[se].buf
           f == session[se].pend
           s1 == [Svc EXCEPT !.bufobj[b] = f,
                             !.session[se].pend = <<>>,
                             !.session[se].rpc = "iter"]
       IN  IF flush
           THEN Install(EmitSubtitle([s1 EXCEPT !.session[se].rpc = "emit"],
                                     c, f))
           ELSE Install(s1)

\* `async for` ends without raising (connection closed normally): 495-496.
ReceiverEndOfStream(se) ==
    /\ Runs(se, "receiver")
    /\ session[se].rpc = "iter"
    /\ session[se].ws = "closed_ok"
    /\ LET c == session[se].ch
           b == session[se].buf
       IN  IF bufobj[b] # <<>>
           THEN Install(EmitSubtitle(
                    [Svc EXCEPT !.session[se].rpc = "final_emit"], c, bufobj[b]))
           ELSE Install(SubEnds(Svc, se, "receiver", "done"))

\* _emit_subtitle returns to line 497; the receiver returns.
ReceiverFinalResume(se) ==
    /\ Runs(se, "receiver")
    /\ session[se].rpc = "final_emit"
    /\ Install(SubEnds([Svc EXCEPT !.bufobj[session[se].buf] = <<>>],
                       se, "receiver", "done"))

\* `async for` raises ConnectionClosedError: the receiver ends with it.
ReceiverError(se) ==
    /\ Runs(se, "receiver")
    /\ session[se].rpc = "iter"
    /\ session[se].ws = "closed_err"
    /\ Install(SubEnds(Svc, se, "receiver", "failed"))

\* _send_keepalive, lines 569-572: the send fails on a closed websocket.
KeepaliveReturns(se) ==
    /\ Runs(se, "keepalive")
    /\ session[se].ws \in CloseKinds
    /\ Install(SubEnds(Svc, se, "keepalive", "done"))

\* _watchdog, lines 588-595: a stall is seen, the websocket is closed.
WatchdogCloses(se, kind) ==
    /\ Runs(se, "watchdog")
    /\ session[se].ws = "open"
    /\ Install(SubEnds([Svc EXCEPT !.session[se].ws = kind],
                       se, "watchdog", "done"))

\* The provider or the network ends the connection.
ServerCloses(se, kind) ==
    /\ NoCancelPending
    /\ session[se].ws = "open"
    /\ Install([Svc EXCEPT !.session[se].ws = kind])

-----------------------------------------------------------------------------
(* api/websocket.py: ConnectionManager and the websocket endpoint          *)

MaxHandles == 2
MaxCaptions == 2
MaxCorrections == 2
MaxInterims == 1
MaxBroadcasts == 202
MaxCalls == 3

Rooms == {"ch8", "ch14"}
Handles == 1..MaxHandles
\* the tasks that call broadcast_*: a receiver (channel_stt.py:433, 550) and
\* the corrector's worker (subtitle_corrector.py:233)
Broadcasters == {"stt", "corrector"}
NoRoom == "none"

\* the text _emit_subtitle gave caption id, and the texts a correction carries
EmittedText(id) == 10 + id
CorrectedTexts == {1, 2}
InterimText == 9

\* subtitle_data["subtitle"] as the hub sees it; original_text is None and
\* is_corrected FALSE while the keys are absent
NewCaption(id) ==
    [id |-> id, text |-> EmittedText(id), original_text |-> None,
     is_corrected |-> FALSE]

Msg(type, id, text, subtitles) ==
    [type |-> type, id |-> id, text |-> text, subtitles |-> subtitles]
NoMsg == Msg("none", None, None, <<>>)

NewHandle ==
    [state |-> "new", room |-> NoRoom, broken |-> FALSE, inbox |-> <<>>,
     joined |-> <<>>, due |-> {}]
ClosedHandle == [NewHandle EXCEPT !.state = "closed", !.broken = TRUE]

IdleTask ==
    [pc |-> "idle", room |-> NoRoom, msg |-> NoMsg, idx |-> 0,
     disconnected |-> {}, detached |-> FALSE, members |-> {},
     attempted |-> <<>>]

\* ConnectionManager.__init__
HubInit ==
    /\ active_connections = [r \in Rooms |-> <<>>]
    /\ room_history = [r \in Rooms |-> <<>>]
    /\ handle = [w \in Handles |-> NewHandle]
    /\ btask = [b \in Broadcasters |-> IdleTask]
    /\ next_id = 1
    /\ passed = [r \in Rooms |-> <<>>]
    /\ emitted = [r \in Rooms |-> {}]
    /\ interims = 0
    /\ corrections = 0

Hub ==
    [conns |-> active_connections, hist |-> room_history, handle |-> handle,
     task |-> btask, next_id |-> next_id, passed |-> passed,
     emitted |-> emitted, interims |-> interims, corrections |-> corrections]

HubInstall(h) ==
    /\ active_connections' = h.conns
    /\ room_history' = h.hist
    /\ handle' = h.handle
    /\ btask' = h.task
    /\ next_id' = h.next_id
    /\ passed' = h.passed
    /\ emitted' = h.emitted
    /\ interims' = h.interims
    /\ corrections' = h.corrections

\* ConnectionManager.disconnect, for every handle of gone: list.remove, and
\* the deletion of the room's key once its list is empty.  A for-loop that
\* iterates the deleted list keeps the (empty) list object it started with;
\* members is the set of handles that were in the list when a broadcast
\* began and have stayed in it since.
DisconnectAll(h, r, gone) ==
    LET old == h.conns[r]
        new == SelectSeq(old, LAMBDA w : w \notin gone)
        deleted == old # <<>> /\ new = <<>>
    IN [h EXCEPT
          !.conns[r] = new,
          !.task = [b \in Broadcasters |->
                      IF h.task[b].pc = "loop" /\ h.task[b].room = r
                      THEN [h.task[b] EXCEPT !.detached = @ \/ deleted,
                                             !.members = @ \ gone]
                      ELSE h.task[b]]]

\* One pass through "for websocket in self.active_connections[room_id]": the
\* list iterator yields the item at its index, if the list still has one,
\* and send_json either hands the message to the handle's transport or
\* raises; the task is suspended in that await until its next pass.  When
\* the iterator is exhausted the handles whose send raised are disconnected
\* and the call returns.
Iterate(h, b) ==
    LET t == h.task[b]
        list == IF t.detached THEN <<>> ELSE h.conns[t.room]
    IN IF t.idx <= Len(list)
       THEN LET ws == list[t.idx]
                ok == ~h.handle[ws].broken
            IN [h EXCEPT
                  !.task[b].idx = @ + 1,
                  !.task[b].attempted = Append(@, ws),
                  !.task[b].disconnected = IF ok THEN @ ELSE @ \cup {ws},
                  !.handle[ws].inbox = IF ok THEN Append(@, t.msg) ELSE @]
       ELSE [DisconnectAll(h, t.room, t.disconnected) EXCEPT
                !.task[b].pc = "done", !.task[b].idx = 0,
                !.task[b].detached = FALSE]

\* "if room_id in self.active_connections:" and the first pass of the loop,
\* reached from the top of a broadcast_* call without a suspension
BeginDelivery(h, b, r, msg) ==
    IF h.conns[r] = <<>>
    THEN [h EXCEPT !.task[b] = [IdleTask EXCEPT !.pc = "done", !.room = r,
                                                !.msg = msg]]
    ELSE Iterate([h EXCEPT !.task[b] =
                     [pc |-> "loop", room |-> r, msg |-> msg, idx |-> 1,
                      disconnected |-> {}, detached |-> FALSE,
                      members |-> Range(h.conns[r]), attempted |-> <<>>]], b)

\* A trim that keeps the oldest entries.
TrimKeepsOldest(history) ==
    IF Len(history) > HISTORY_SIZE
    THEN SubSeq(history, 1, HISTORY_SIZE)
    ELSE history

\* history[-HISTORY_SIZE:] when the list is longer than HISTORY_SIZE
Trim(history) ==
    IF Len(history) > HISTORY_SIZE
    THEN SubSeq(history, Len(history) - HISTORY_SIZE + 1, Len(history))
    ELSE history

\* ConnectionManager.connect, called by _handle_ws for a new websocket.  The
\* append and the start of the history send are not separated by an await.
\* Websockets are interchangeable, so they connect in the order of their
\* numbers.
\* joined is the history at that moment; due collects the captions broadcast
\* to the room while the handle is in its list.
Connect(ws, r) ==
    /\ handle[ws].state = "new"
    /\ \A w \in Handles : w < ws => handle[w].state # "new"
    /\ LET history == room_history[r]
           sent_ok == history # <<>> /\ ~handle[ws].broken
       IN HubInstall([Hub EXCEPT
             !.conns[r] = Append(@, ws),
             !.handle[ws] = [@ EXCEPT
                 !.state = "open",
                 !.room = r,
                 !.joined = history,
                 !.inbox = IF sent_ok
                           THEN <<Msg("subtitle_history", None, None, history)>>
                           ELSE <<>>]])

\* The peer goes away: from now on a send to the handle raises, and the
\* endpoint's receive_text raises WebSocketDisconnect when it is resumed.
PeerCloses(ws) ==
    /\ handle[ws].state = "open"
    /\ ~handle[ws].broken
    /\ handle' = [handle EXCEPT ![ws].broken = TRUE]
    /\ UNCHANGED <<active_connections, room_history, btask, next_id, passed,
                   emitted, interims, corrections>>

\* _handle_ws: except WebSocketDisconnect: manager.disconnect(websocket, room_id)
EndpointDisconnect(ws) ==
    /\ handle[ws].state = "open"
    /\ handle[ws].broken
    /\ HubInstall([DisconnectAll(Hub, handle[ws].room, {ws}) EXCEPT
                      !.handle[ws] = ClosedHandle])

\* ConnectionManager.broadcast_subtitle called by task b: append, trim, then
\* the delivery loop
BroadcastSubtitle(b, r) ==
    /\ btask[b].pc # "loop"
    /\ LET c == NewCaption(next_id)
           h1 == [Hub EXCEPT
                    !.hist[r] = Trim(Append(@, c)),
                    !.passed[r] = Append(@, c.id),
                    !.emitted[r] = @ \cup {c.id},
                    !.next_id = @ + 1,
                    !.handle = [w \in Handles |->
                        IF w \in Range(active_connections[r])
                        THEN [handle[w] EXCEPT !.due = @ \cup {c.id}]
                        ELSE handle[w]]]
       IN HubInstall(BeginDelivery(h1, b, r,
                        Msg("subtitle_created", c.id, c.text, <<>>)))

\* ConnectionManager.broadcast_interim_subtitle called by task b
BroadcastInterim(b, r) ==
    /\ btask[b].pc # "loop"
    /\ HubInstall(BeginDelivery([Hub EXCEPT !.interims = @ + 1], b, r,
                     Msg("subtitle_interim", None, InterimText, <<>>)))

\* lines 145-152: the first history entry with the id is patched in place
Patch(history, sub_id, corrected_text) ==
    IF \E i \in DOMAIN history : history[i].id = sub_id
    THEN LET i == CHOOSE j \in DOMAIN history :
                     /\ history[j].id = sub_id
                     /\ \A k \in 1..(j - 1) : history[k].id # sub_id
         IN [history EXCEPT ![i] =
                [id |-> @.id, text |-> corrected_text,
                 original_text |-> @.text, is_corrected |-> TRUE]]
    ELSE history

\* ConnectionManager.broadcast_corrected_subtitle called by task b
BroadcastCorrected(b, r, sub_id, corrected_text) ==
    /\ btask[b].pc # "loop"
    /\ HubInstall(BeginDelivery(
           [Hub EXCEPT !.hist[r] = Patch(@, sub_id, corrected_text),
                       !.corrections = @ + 1],
           b, r, Msg("subtitle_corrected", sub_id, corrected_text, <<>>)))

\* a broadcasting task is resumed from its send_json
BroadcastStep(b) ==
    /\ btask[b].pc = "loop"
    /\ HubInstall(Iterate(Hub, b))

\* ConnectionManager.clear_history
ClearHistory(r) ==
    /\ room_history[r] # <<>>
    /\ room_history' = [room_history EXCEPT ![r] = <<>>]
    /\ passed' = [passed EXCEPT ![r] = <<>>]
    /\ UNCHANGED <<active_connections, handle, btask, next_id, emitted,
                   interims, corrections>>

-----------------------------------------------------------------------------
(* services/channel_status.py: ChannelStatusService                         *)

MaxFetches == 3
MaxNotifyPolls == 52

CACHE_TTL_SECONDS == 5
QUEUE_MAXSIZE == 50

\* upstream codes of two catalog channels, and the livestatus values the
\* origin reports for them (1 on air, 2 recess)
Codes == {"A011", "C501"}
CodeOrder == <<"A011", "C501">>
Statuses == {1, 2}
Snapshots == [Codes -> Statuses \cup {None}]
EmptySnapshot == [c \in Codes |-> None]

Pollers == {"sse", "auto"}
NoCaller == "none"
QueueIds == {"q1", "q2"}

NoGroup == [open |-> FALSE, members |-> {}, requests |-> 0, rets |-> {}]
NoFetch == [outcome |-> "none", changes |-> <<>>, ret |-> EmptySnapshot]

\* ChannelStatusService.__init__
StatusInit ==
    /\ status = EmptySnapshot
    /\ prev_status = EmptySnapshot
    /\ age = CACHE_TTL_SECONDS
    /\ lock = NoCaller
    /\ waiters = <<>>
    /\ poller = [c \in Pollers |-> "idle"]
    /\ subscribers = <<>>
    /\ queues = [q \in QueueIds |-> <<>>]
    /\ fetches = 0
    /\ published = 0
    /\ grp = NoGroup
    /\ subscribed_at = [q \in QueueIds |-> None]
    /\ consumed = [q \in QueueIds |-> 0]
    /\ last_fetch = NoFetch

\* lines 44 and 50: now - self._last_fetched < CACHE_TTL_SECONDS and self._status
CacheFresh == age < CACHE_TTL_SECONDS /\ status # EmptySnapshot

RECURSIVE ChangesOver(_, _, _)
ChangesOver(codes, old, new) ==
    IF codes = <<>> THEN <<>>
    ELSE LET code == codes[1]
             rest == ChangesOver(Tail(codes), old, new)
         IN IF old[code] # new[code]
            THEN <<[code |-> code, old_status |-> old[code],
                    new_status |-> new[code]]>> \o rest
            ELSE rest

\* A _detect_changes that only looks at the codes of the new snapshot.
DetectChangesOfPresentCodes(old, new) ==
    ChangesOver(SelectSeq(CodeOrder, LAMBDA c : new[c] # None), old, new)

\* _detect_changes: one entry for every code of either snapshot whose values
\* differ (.get gives None for an absent code)
DetectChanges(old, new) ==
    ChangesOver(SelectSeq(CodeOrder,
                          LAMBDA c : old[c] # None \/ new[c] # None), old, new)

\* the members of the subscriber list, and those whose queue is full
Full(q) == Len(queues[q]) >= QUEUE_MAXSIZE

\* A _notify_subscribers that gives up at the first full queue.
NotifySubscribersStopsAtFull(batch) ==
    LET reached(q) == \A i \in DOMAIN subscribers :
                         Full(subscribers[i]) =>
                            \E j \in 1..(i - 1) : subscribers[j] = q
    IN /\ queues' = [q \in QueueIds |->
                        IF q \in Range(subscribers) /\ reached(q)
                        THEN Append(queues[q], batch)
                        ELSE queues[q]]
       /\ subscribers' = SelectSeq(subscribers, LAMBDA q : ~Full(q))

\* _notify_subscribers: put_nowait on every queue of the list, then the
\* removal of those that raised QueueFull
NotifySubscribers(batch) ==
    /\ queues' = [q \in QueueIds |->
                     IF q \in Range(subscribers) /\ ~Full(q)
                     THEN Append(queues[q], batch)
                     ELSE queues[q]]
    /\ subscribers' = SelectSeq(subscribers, LAMBDA q : ~Full(q))

\* the caller leaves "async with self._lock" and returns self._status; the
\* lock passes to the first waiter, which runs when it is scheduled
Release(c, ret, requested) ==
    /\ lock' = IF waiters = <<>> THEN NoCaller ELSE Head(waiters)
    /\ waiters' = IF waiters = <<>> THEN <<>> ELSE Tail(waiters)
    /\ poller' = [p \in Pollers |->
                     IF p = c THEN "idle"
                     ELSE IF waiters # <<>> /\ p = Head(waiters)
                     THEN "acquired"
                     ELSE poller[p]]
    /\ grp' = IF c \in grp.members
              THEN [grp EXCEPT !.open = IF requested THEN FALSE ELSE @,
                               !.rets = @ \cup {ret}]
              ELSE grp

\* lines 53-67 up to the await of client.post: the request goes out
StartRequest(c) ==
    /\ prev_status' = status
    /\ fetches' = fetches + 1
    /\ grp' = IF c \in grp.members THEN [grp EXCEPT !.requests = @ + 1]
              ELSE grp

\* the callers inside fetch_status past the first cache check
InSlowPath == {p \in Pollers : poller[p] # "idle"}

\* fetch_status is called: lines 43-47.  A caller that finds the cache
\* expired while no other caller is past that check starts a new group;
\* one that finds it expired before the group's request has returned joins.
Call(c) ==
    /\ poller[c] = "idle"
    /\ IF CacheFresh
       THEN /\ last_fetch' = [outcome |-> "cached", changes |-> <<>>,
                              ret |-> status]
            /\ UNCHANGED <<status, prev_status, age, lock, waiters, poller,
                           subscribers, queues, fetches, published, grp,
                           subscribed_at, consumed>>
       ELSE LET g == IF InSlowPath = {}
                     THEN [open |-> TRUE, members |-> {c}, requests |-> 0,
                           rets |-> {}]
                     ELSE IF grp.open
                     THEN [grp EXCEPT !.members = @ \cup {c}]
                     ELSE grp
            IN IF lock = NoCaller
               THEN /\ lock' = c
                    /\ poller' = [poller EXCEPT ![c] = "request"]
                    /\ prev_status' = status
                    /\ fetches' = fetches + 1
                    /\ grp' = [g EXCEPT !.requests =
                                  IF c \in g.members THEN @ + 1 ELSE @]
                    /\ UNCHANGED <<status, age, waiters, subscribers, queues,
                                   published, subscribed_at, consumed,
                                   last_fetch>>
               ELSE /\ waiters' = Append(waiters, c)
                    /\ poller' = [poller EXCEPT ![c] = "wait"]
                    /\ grp' = g
                    /\ UNCHANGED <<status, prev_status, age, lock, fetches,
                                   subscribers, queues, published,
                                   subscribed_at, consumed, last_fetch>>

\* a waiter has got the lock: lines 49-51, the second cache check
Acquired(c) ==
    /\ poller[c] = "acquired"
    /\ lock = c
    /\ IF CacheFresh
       THEN /\ Release(c, status, FALSE)
            /\ last_fetch' = [outcome |-> "cached", changes |-> <<>>,
                              ret |-> status]
            /\ UNCHANGED <<status, prev_status, age, subscribers, queues,
                           fetches, published, subscribed_at, consumed>>
       ELSE /\ poller' = [poller EXCEPT ![c] = "request"]
            /\ StartRequest(c)
            /\ UNCHANGED <<status, age, lock, waiters, subscribers, queues,
                           published, subscribed_at, consumed, last_fetch>>

\* lines 68-91 and 98: the reply is a 2xx with a JSON list that gives the
\* snapshot new_status
FetchSucceeds(c, new_status) ==
    /\ poller[c] = "request"
    /\ status' = new_status
    /\ age' = 0
    /\ LET changes == DetectChanges(prev_status, new_status)
       IN /\ IF changes # <<>>
             THEN /\ NotifySubscribers([n |-> published + 1,
                                        changes |-> changes])
                  /\ published' = published + 1
             ELSE UNCHANGED <<subscribers, queues, published>>
          /\ last_fetch' = [outcome |-> "ok", changes |-> changes,
                          ret |-> new_status]
    /\ Release(c, new_status, TRUE)
    /\ UNCHANGED <<prev_status, fetches, subscribed_at, consumed>>

\* A failure handler that stamps the cache as just fetched.
FailureAgeFresh == CACHE_TTL_SECONDS - CACHE_TTL_SECONDS

\* line 96: _last_fetched = time.monotonic() - (CACHE_TTL_SECONDS - 1)
FailureAge == CACHE_TTL_SECONDS - 1

\* lines 93-98: the request, raise_for_status or resp.json() raised
FetchFails(c) ==
    /\ poller[c] = "request"
    /\ age' = FailureAge
    /\ last_fetch' = [outcome |-> "failed", changes |-> <<>>, ret |-> status]
    /\ Release(c, status, TRUE)
    /\ UNCHANGED <<status, prev_status, subscribers, queues, fetches,
                   published, subscribed_at, consumed>>

\* a second passes; a caller that has been handed the lock is runnable and
\* runs before that
Tick ==
    /\ age < CACHE_TTL_SECONDS
    /\ \A c \in Pollers : poller[c] # "acquired"
    /\ age' = age + 1
    /\ UNCHANGED <<status, prev_status, lock, waiters, poller, subscribers,
                   queues, fetches, published, grp, subscribed_at, consumed,
                   last_fetch>>

\* subscribe(): a new queue joins the list
Subscribe(q) ==
    /\ subscribed_at[q] = None
    /\ subscribers' = Append(subscribers, q)
    /\ subscribed_at' = [subscribed_at EXCEPT ![q] = published]
    /\ UNCHANGED <<status, prev_status, age, lock, waiters, poller, queues,
                   fetches, published, grp, consumed, last_fetch>>

\* unsubscribe(queue)
Unsubscribe(q) ==
    /\ q \in Range(subscribers)
    /\ subscribers' = SelectSeq(subscribers, LAMBDA x : x # q)
    /\ UNCHANGED <<status, prev_status, age, lock, waiters, poller, queues,
                   fetches, published, grp, subscribed_at, consumed,
                   last_fetch>>

\* the owner of a queue takes the oldest batch: await queue.get()
QueueGet(q) ==
    /\ queues[q] # <<>>
    /\ queues' = [queues EXCEPT ![q] = Tail(@)]
    /\ consumed' = [consumed EXCEPT ![q] = @ + 1]
    /\ UNCHANGED <<status, prev_status, age, lock, waiters, poller,
                   subscribers, fetches, published, grp, subscribed_at,
                   last_fetch>>

\* the origin's next reply when one channel goes on and off air
Flip(snapshot) ==
    [snapshot EXCEPT !["A011"] = IF @ = 1 THEN 2 ELSE 1]

-----------------------------------------------------------------------------
(* AutoSttManager: the worker supervisor (services/auto_stt.py)             *)

\* CHANNELS of core/channels.py, in catalog order
CHANNELS == <<"ch14", "ch8">>

\* the status code of a catalog channel
CodeOf(c) == IF c = "ch14" THEN "A011" ELSE "C501"

LIVESTATUS_BROADCASTING == 1

NoPass == [op |-> "none", status_map |-> EmptySnapshot, ret |-> <<>>]

\* The singleton is built by the first get_auto_stt_manager() call.
\* codes the origin reports: those of the catalog and one of no channel
MonitorCodeOrder == <<"A011", "C501", "Z999">>

\* what the origin reports: only the first channel is seen in recess
Reports ==
    {m \in [Range(MonitorCodeOrder) -> Statuses \cup {None}] :
        m["C501"] # 2 /\ m["Z999"] # 2}

\* a snapshot of the catalog codes, as a report
AsReport(status_map) ==
    [code \in Range(MonitorCodeOrder) |->
        IF code \in Codes THEN status_map[code] ELSE None]

NoMonitor == [pc |-> "none", todo |-> <<>>, got |-> <<>>, handled |-> <<>>]

AutoInit ==
    /\ auto_stt_manager = "none"
    /\ ensure_pc = "idle"
    /\ last_pass = NoPass
    /\ monitor = NoMonitor
    /\ stop_pc = "idle"
    /\ announced = AsReport(EmptySnapshot)

\* ChannelSttService.is_running
is_running(s, c) ==
    /\ s.active_tasks[c] # None
    /\ s.worker[s.active_tasks[c]].state # "done"

\* status_map.get(code, 0)
LiveStatus(status_map, code) ==
    IF status_map[code] = None THEN 0 ELSE status_map[code]

ShouldStartEveryLive(s, status_map, c) ==
    LiveStatus(status_map, CodeOf(c)) = LIVESTATUS_BROADCASTING

\* the condition of lines 107 and 132-133
ShouldStart(s, status_map, c) ==
    /\ LiveStatus(status_map, CodeOf(c)) = LIVESTATUS_BROADCASTING
    /\ ~is_running(s, c)

RECURSIVE StartLive(_, _, _, _)

\* The for-loop of both passes over the channels still to visit.  start
\* returns without suspending when the channel has no entry, and a channel
\* the loop calls start for has none (RegisteredIsRunning), so the loop
\* runs as one step and leaves the caller k as it found it.
StartLive(p, k, status_map, todo) ==
    IF todo = <<>>
    THEN p
    ELSE LET c == Head(todo) IN
         StartLive(IF ShouldStart(p.svc, status_map, c)
                   THEN [svc |-> [StartCall(p.svc, k, c)
                                     EXCEPT !.caller[k] = p.svc.caller[k]],
                         started |-> Append(p.started, c)]
                   ELSE p,
                   k, status_map, Tail(todo))

\* Lifespan start-up, main.py:49-50: the singleton is built from the
\* settings, start() makes its pass and creates the monitor task; requests
\* are served afterwards.
AutoStart(stt_auto_start, status_map) ==
    /\ auto_stt_manager = "none"
    /\ LET enabled == stt_auto_start /\ deepgram_api_key
           p == StartLive([svc |-> Svc, started |-> <<>>], "monitor",
                          status_map, CHANNELS)
       IN  IF ~enabled
           THEN /\ auto_stt_manager' = "disabled"
                /\ last_pass' = [NoPass EXCEPT !.op = "start"]
                /\ UNCHANGED <<svcVars, monitor, announced>>
           ELSE /\ p.svc.nextTask <= MaxTasks + 1
                /\ auto_stt_manager' = "enabled"
                /\ Install(p.svc)
                /\ last_pass' = [op |-> "start", status_map |-> status_map,
                                 ret |-> <<>>]
                /\ monitor' = [NoMonitor EXCEPT !.pc = "created"]
                /\ announced' = AsReport(status_map)
    /\ UNCHANGED <<ensure_pc, stop_pc>>

\* ensure_stt_for_live_channels is called: it returns [] when disabled and
\* suspends in fetch_status otherwise.
EnsureCalled ==
    /\ auto_stt_manager # "none"
    /\ ensure_pc = "idle"
    /\ IF auto_stt_manager = "disabled"
       THEN /\ last_pass' = [NoPass EXCEPT !.op = "ensure"]
            /\ UNCHANGED ensure_pc
       ELSE /\ ensure_pc' = "fetch"
            /\ UNCHANGED last_pass
    /\ UNCHANGED <<svcVars, auto_stt_manager, monitor, stop_pc, announced>>

\* fetch_status has returned status_map: the loop runs and the call returns
\* the list `started`.
EnsureFetched(status_map) ==
    /\ ensure_pc = "fetch"
    /\ NoCancelPending
    /\ LET p == StartLive([svc |-> Svc, started |-> <<>>], "monitor",
                          status_map, CHANNELS)
       IN  /\ p.svc.nextTask <= MaxTasks + 1
           /\ Install(p.svc)
           /\ last_pass' = [op |-> "ensure", status_map |-> status_map,
                            ret |-> p.started]
    /\ ensure_pc' = "idle"
    /\ UNCHANGED <<auto_stt_manager, monitor, stop_pc, announced>>

\* fetch_status has returned status_map and the start called for channel
\* `bad` raises (channel_stt.py:185): nothing catches it in lines 105-117, so
\* the loop is left and the exception leaves ensure_stt_for_live_channels.
EnsureFetchedStartRaises(status_map, bad) ==
    /\ ensure_pc = "fetch"
    /\ NoCancelPending
    /\ \E i \in DOMAIN CHANNELS :
          /\ CHANNELS[i] = bad
          /\ LET p == StartLive([svc |-> Svc, started |-> <<>>], "monitor",
                                status_map, SubSeq(CHANNELS, 1, i - 1))
             IN  /\ p.svc.nextTask <= MaxTasks + 1
                 /\ ShouldStart(p.svc, status_map, bad)
                 /\ Install(p.svc)
                 /\ last_pass' = [op |-> "ensure_raised",
                                  status_map |-> status_map,
                                  ret |-> p.started]
    /\ ensure_pc' = "idle"
    /\ UNCHANGED <<auto_stt_manager, monitor, stop_pc, announced>>

\* ---- the monitor task and AutoSttManager.stop ----

MaxBatches == 2

\* the queue _monitor_status_changes subscribes
MonitorQueue == "q2"

NoChannel == "-"

\* get_channel_by_code: the catalog channel of a code, if any
get_channel_by_code(code) ==
    IF \E c \in Channels : CodeOf(c) = code
    THEN CHOOSE c \in Channels : CodeOf(c) = code
    ELSE NoChannel

\* what the poller's other variables do while a batch is published or taken
PollerIdle ==
    UNCHANGED <<status, prev_status, age, lock, waiters, poller, fetches,
                grp, subscribed_at, consumed, last_fetch>>

\* A task of the supervisor can run: a cancellation is to be delivered, the
\* monitor has been created and has not run yet, its queue.get() has a batch
\* to return, or the task it awaits is done.  The event loop runs such a
\* task before the reply to a later request of the poller arrives; the
\* server accepts requests only when the start-up of main.py (lines 49-63),
\* which creates the monitor, is over.
MonitorReady ==
    \/ ~NoCancelPending
    \/ monitor.pc = "created"
    \/ monitor.pc = "get" /\ queues[MonitorQueue] # <<>>
    \/ /\ monitor.pc = "stop"
       /\ caller["monitor"].pc = "await_task"
       /\ worker[caller["monitor"].task].state = "done"

\* A fetch_status call finds the origin reporting `new` (channel_status.py
\* 60-70): the changes against the last report are published as one batch.
\* `most` bounds the number of batches.
AnnounceWithin(new, most) ==
    /\ auto_stt_manager # "none"
    /\ stop_pc = "idle"
    /\ ~MonitorReady
    /\ published < most
    /\ LET changes ==
             ChangesOver(SelectSeq(MonitorCodeOrder,
                                   LAMBDA code : \/ announced[code] # None
                                                 \/ new[code] # None),
                         announced, new)
       IN  /\ changes # <<>>
           /\ NotifySubscribers([n |-> published + 1, changes |-> changes])
    /\ published' = published + 1
    /\ announced' = new
    /\ PollerIdle
    /\ UNCHANGED <<svcVars, auto_stt_manager, ensure_pc, last_pass, monitor,
                   stop_pc>>

Announce(new) == AnnounceWithin(new, MaxBatches)

\* The monitor task runs for the first time: subscribe(), then queue.get().
MonitorSubscribes ==
    /\ monitor.pc = "created"
    /\ Subscribe(MonitorQueue)
    /\ monitor' = [monitor EXCEPT !.pc = "get"]
    /\ UNCHANGED <<svcVars, auto_stt_manager, ensure_pc, last_pass, stop_pc,
                   announced>>

\* One change has been handled: `call` is what the handler did for it.
Handled(p, s, call) ==
    LET change == Head(p.todo)
        c == get_channel_by_code(change.code)
    IN  [p EXCEPT !.svc = s,
                  !.todo = Tail(@),
                  !.handled = Append(@, [change |-> change, call |-> call,
                                         running |-> /\ c # NoChannel
                                                     /\ is_running(s, c)])]

\* line 180
GoesLive(change) ==
    /\ change.new_status = LIVESTATUS_BROADCASTING
    /\ change.old_status # LIVESTATUS_BROADCASTING

\* A line 195 that only knows the recess status.
GoesOffToRecess(change) ==
    /\ change.old_status = LIVESTATUS_BROADCASTING
    /\ change.new_status = LIVESTATUS_BROADCASTING + 1

\* line 195
GoesOff(change) ==
    /\ change.old_status = LIVESTATUS_BROADCASTING
    /\ change.new_status # LIVESTATUS_BROADCASTING

RECURSIVE HandleStatusChanges(_, _)

\* _handle_status_changes from the first change of p.todo on, up to the
\* stop that suspends or the end of the batch.  start does not suspend
\* (see StartLive); `raises` tells whether the start calls made now raise,
\* which they do at line 185, before anything is changed.  The position is
\* "full" when the model has no task left for a start.
HandleStatusChanges(p, raises) ==
    IF p.todo = <<>>
    THEN [p EXCEPT !.pc = "get"]
    ELSE LET change == Head(p.todo)
             c == get_channel_by_code(change.code)
         IN  IF c = NoChannel
             THEN HandleStatusChanges(Handled(p, p.svc, "none"), raises)
             ELSE IF GoesLive(change)
             THEN IF is_running(p.svc, c)
                  THEN HandleStatusChanges(Handled(p, p.svc, "none"), raises)
                  ELSE IF raises
                  THEN HandleStatusChanges(Handled(p, p.svc, "start_raised"),
                                           raises)
                  ELSE IF p.svc.nextTask > MaxTasks
                  THEN [p EXCEPT !.pc = "full"]
                  ELSE HandleStatusChanges(
                           Handled(p, StartCall(p.svc, "monitor", c), "start"),
                           raises)
             ELSE IF GoesOff(change) /\ is_running(p.svc, c)
             THEN [p EXCEPT
                     !.svc = StopHead([p.svc EXCEPT !.caller["monitor"] =
                                          [IdleCaller EXCEPT !.op = "stop",
                                               !.pc = "run", !.ch = c]],
                                      "monitor", c),
                     !.pc = "stop"]
             ELSE HandleStatusChanges(Handled(p, p.svc, "none"), raises)

\* The monitor's view of a service state, and the step that installs the
\* result of running the handler.
MonitorAt(s, todo) ==
    [svc |-> s, todo |-> todo, handled |-> monitor.handled, pc |-> "get"]

MonitorInstall(p, got) ==
    \E q \in {p} :
        /\ q.pc # "full"
        /\ Install(q.svc)
        /\ monitor' = [pc |-> q.pc, todo |-> q.todo, got |-> got,
                       handled |-> q.handled]

\* queue.get() returns the oldest batch and the handler runs.
MonitorGet(raises) ==
    /\ monitor.pc = "get"
    /\ NoCancelPending
    /\ QueueGet(MonitorQueue)
    /\ LET batch == Head(queues[MonitorQueue]) IN
       MonitorInstall(HandleStatusChanges(MonitorAt(Svc, batch.changes),
                                          raises),
                      Append(monitor.got, batch))
    /\ UNCHANGED <<auto_stt_manager, ensure_pc, last_pass, stop_pc, announced>>

\* The stop called at line 205 has come to s: when it has returned, or has
\* raised into the `except Exception` of line 206, the handler goes on with
\* the change that follows.
MonitorResumes(s, raises) ==
    /\ \E s1 \in {s} :
          IF s1.caller["monitor"].op = "idle"
          THEN MonitorInstall(
                   HandleStatusChanges(
                       Handled(MonitorAt(s1, monitor.todo), s1,
                               IF "monitor" \in s1.callerError
                               THEN "stop_raised" ELSE "stop"),
                       raises),
                   monitor.got)
          ELSE Install(s1) /\ UNCHANGED monitor
    /\ UNCHANGED <<statusVars, auto_stt_manager, ensure_pc, last_pass,
                   stop_pc, announced>>

\* `await task` inside the monitor's stop completes.
MonitorTaskAwaited(raises) ==
    /\ monitor.pc = "stop"
    /\ NoCancelPending
    /\ caller["monitor"].pc = "await_task"
    /\ worker[caller["monitor"].task].state = "done"
    /\ MonitorResumes(TaskAwaited(Svc, "monitor"), raises)

\* `await parser.close()` inside the monitor's stop completes.
MonitorParserClosed(raises) ==
    /\ monitor.pc = "stop"
    /\ NoCancelPending
    /\ caller["monitor"].pc = "await_close"
    /\ MonitorResumes(ParserClosed(Svc, "monitor"), raises)

\* stop_all, lines 222-224, up to its first suspension, called by the
\* shutdown; no request is being served then.
StopAllCall(s, k) ==
    LET channel_ids == KeyList(s) IN
    IF channel_ids = <<>>
    THEN s
    ELSE StopHead([s EXCEPT !.caller[k] =
                      [IdleCaller EXCEPT !.op = "stop_all", !.pc = "run",
                                         !.todo = Tail(channel_ids)]],
                  k, Head(channel_ids))

\* stop_all has been called in s: stop() has returned when it has.
AutoStopGoesOn(s) ==
    /\ Install(s)
    /\ stop_pc' = IF s.caller["http"].op = "idle"
                  THEN "returned" ELSE "stop_all"

\* AutoSttManager.stop() is called, lines 80-83: without a live monitor task
\* it goes on to stop_all; else it cancels the task and awaits it.  The
\* cancelled monitor runs next.  Suspended in queue.get() (line 160) or in
\* parser.close() (channel_stt.py:209) it gets CancelledError, which lines
\* 162-165 catch: it unsubscribes and ends.  Not yet started, it ends without
\* having run.  Suspended in `await task` (channel_stt.py:203) the
\* cancellation is passed to that task and what reaches the monitor is
\* swallowed by the `except asyncio.CancelledError` of line 204: the monitor
\* goes on.
AutoStopCalled ==
    /\ stop_pc = "idle"
    /\ auto_stt_manager # "none"
    /\ ensure_pc = "idle"
    /\ caller["http"].op = "idle"
    /\ NoCancelPending
    /\ IF monitor.pc \in {"none", "done"}
       THEN /\ AutoStopGoesOn(StopAllCall(Svc, "http"))
            /\ UNCHANGED <<monitor, statusVars>>
       ELSE /\ stop_pc' = "await_monitor"
            /\ CASE monitor.pc = "created" ->
                      /\ monitor' = [monitor EXCEPT !.pc = "done"]
                      /\ UNCHANGED <<svcVars, statusVars>>
                 [] monitor.pc = "get" ->
                      /\ monitor' = [monitor EXCEPT !.pc = "done"]
                      /\ subscribers' = SelectSeq(subscribers,
                                            LAMBDA q : q # MonitorQueue)
                      /\ PollerIdle
                      /\ UNCHANGED <<svcVars, queues, published>>
                 [] monitor.pc = "stop"
                      /\ caller["monitor"].pc = "await_close" ->
                      /\ monitor' = [monitor EXCEPT !.pc = "done"]
                      /\ subscribers' = SelectSeq(subscribers,
                                            LAMBDA q : q # MonitorQueue)
                      /\ PollerIdle
                      /\ Install([Svc EXCEPT !.caller["monitor"] = IdleCaller])
                      /\ UNCHANGED <<queues, published>>
                 [] OTHER ->
                      UNCHANGED <<monitor, svcVars, statusVars>>
    /\ UNCHANGED <<auto_stt_manager, ensure_pc, last_pass, announced>>

\* `await self._monitor_task` of line 83 completes; line 87 calls stop_all.
AutoStopMonitorAwaited ==
    /\ stop_pc = "await_monitor"
    /\ monitor.pc = "done"
    /\ NoCancelPending
    /\ AutoStopGoesOn(StopAllCall(Svc, "http"))
    /\ UNCHANGED <<statusVars, auto_stt_manager, ensure_pc, last_pass,
                   monitor, announced>>

\* `await task` inside a stop of stop_all completes.
AutoStopTaskAwaited ==
    /\ stop_pc = "stop_all"
    /\ NoCancelPending
    /\ caller["http"].pc = "await_task"
    /\ worker[caller["http"].task].state = "done"
    /\ AutoStopGoesOn(TaskAwaited(Svc, "http"))
    /\ UNCHANGED <<statusVars, auto_stt_manager, ensure_pc, last_pass,
                   monitor, announced>>

\* `await parser.close()` inside a stop of stop_all completes.
AutoStopParserClosed ==
    /\ stop_pc = "stop_all"
    /\ NoCancelPending
    /\ caller["http"].pc = "await_close"
    /\ AutoStopGoesOn(ParserClosed(Svc, "http"))
    /\ UNCHANGED <<statusVars, auto_stt_manager, ensure_pc, last_pass,
                   monitor, announced>>

-----------------------------------------------------------------------------
(* VodSttService: batch transcription of a recorded meeting                 *)
(* (services/vod_stt_service.py) and its endpoint (api/meetings.py).        *)
(* Progress is counted in units of 1/600, in which every value the code     *)
(* assigns is a whole number; file sizes are counted in chunks.  The store  *)
(* calls of _update_meeting_status and _insert_subtitles are synchronous,   *)
(* so a run is suspended only in the download and in the upload.            *)

MaxVodRuns == 2
MaxSttRequests == 2
MaxChunks == 2

\* progress 1.0
ProgressUnit == 600

\* n hundredths of the progress range
Pct(n) == (n * ProgressUnit) \div 100

VodRuns == 1..MaxVodRuns
SttRequests == 1..MaxSttRequests

\* a meeting of the meetings table that has a vod_url
VodMeeting == "m1"

\* ids a request can name: the stored meeting, a channel id, an unknown id
RequestIds == {VodMeeting, "ch8", "m0"}

\* get_meeting_by_id_service: a channel id yields a live meeting without
\* vod_url, a stored id its row, anything else None
get_meeting_by_id_service(meeting_id) ==
    IF meeting_id \in Channels THEN [id |-> meeting_id, vod_url |-> ""]
    ELSE IF meeting_id = VodMeeting THEN [id |-> meeting_id, vod_url |-> "mp4"]
    ELSE [id |-> "", vod_url |-> ""]

\* exceptions a step can raise, with their str() and the name of their
\* type: a timeout of the transfer, an error reply of the store
TimeoutError == [msg |-> "", name |-> "TimeoutError"]
StoreError == [msg |-> "store error", name |-> "APIError"]

VodDownloadError == [msg |-> "HTTP 404", name |-> "VodDownloadError"]

DeepgramError(code) ==
    [msg |-> IF code = 429 THEN "rate limit" ELSE "HTTP 500", name |-> "Exception"]

StoreReplies == {"ok", "raises"}

NoRun ==
    [pc |-> "none", meeting |-> "-", status |-> "none", progress |-> 0,
     error |-> "", tmp |-> FALSE, mp4_path |-> FALSE, total_size |-> 0,
     downloaded |-> 0, uploaded |-> 0, reverted |-> "no", exit |-> "none"]

NoRequest == [pc |-> "none", meeting |-> "-", code |-> 0, task_id |-> None]

VodInit ==
    /\ vod_tasks = [m \in RequestIds |-> None]
    /\ vod_run = [r \in VodRuns |-> NoRun]
    /\ meeting_status = [m \in {VodMeeting} |-> "ended"]
    /\ stt_request = [q \in SttRequests |-> NoRequest]
    /\ dg_result = [utterances |-> <<>>, words |-> <<>>]
    /\ subtitles_table = <<>>

\* is_processing(meeting_id)
is_processing(meeting_id) ==
    /\ vod_tasks[meeting_id] # None
    /\ vod_run[vod_tasks[meeting_id]].status \in {"pending", "running"}

\* is_processing that trusts the registry entry alone
IsProcessingAnyEntry(meeting_id) == vod_tasks[meeting_id] # None

\* the run asyncio.create_task(service.process(...)) creates next
FreeRuns == {r \in VodRuns : vod_run[r].pc = "none"}
NextRun == CHOOSE r \in FreeRuns : \A x \in FreeRuns : r <= x

\* start_stt_processing up to its sleep (or to the HTTPException it raises)
StartSttProcessing(q, meeting_id) ==
    /\ stt_request[q].pc = "none"
    /\ LET meeting == get_meeting_by_id_service(meeting_id)
           Reject(code) ==
               /\ stt_request' = [stt_request EXCEPT ![q] =
                       [@ EXCEPT !.pc = "done", !.meeting = meeting_id,
                                 !.code = code]]
               /\ UNCHANGED vod_run
       IN IF meeting.id = "" THEN Reject(404)
          ELSE IF meeting.vod_url = "" THEN Reject(400)
          ELSE IF is_processing(meeting_id) THEN Reject(409)
          ELSE /\ FreeRuns # {}
               /\ vod_run' = [vod_run EXCEPT ![NextRun] =
                       [NoRun EXCEPT !.pc = "created", !.meeting = meeting_id]]
               /\ stt_request' = [stt_request EXCEPT ![q] =
                       [@ EXCEPT !.pc = "sleep", !.meeting = meeting_id]]
    /\ UNCHANGED <<vod_tasks, meeting_status, dg_result, subtitles_table>>

\* start_stt_processing after asyncio.sleep(0.05): the reply
SttSleepDone(q) ==
    /\ stt_request[q].pc = "sleep"
    /\ LET task == vod_tasks[stt_request[q].meeting]
       IN stt_request' = [stt_request EXCEPT ![q] =
              [@ EXCEPT !.pc = "done", !.code = 200, !.task_id = task]]
    /\ UNCHANGED <<vod_tasks, vod_run, meeting_status, dg_result,
                   subtitles_table>>

\* str(e) or type(e).__name__
ErrorText(e) == IF e.msg # "" THEN e.msg ELSE e.name

\* the except-Exception clause of process(); revert is what the store
\* answers to the write that puts the meeting back to "ended"
Except(run, e, revert) ==
    [run EXCEPT !.status = "failed", !.error = ErrorText(e),
                !.reverted = revert, !.exit = "failed"]

\* the locals of a run that has exited
Exited(run) ==
    [run EXCEPT !.pc = "done", !.mp4_path = FALSE, !.total_size = 0,
                !.downloaded = 0, !.uploaded = 0]

\* the finally clause of process()
Finally(run) ==
    Exited([run EXCEPT !.tmp = IF run.mp4_path THEN FALSE ELSE @])

\* the meetings table after the except clause of a run for meeting m
Reverted(m, revert) ==
    IF revert = "ok" THEN [meeting_status EXCEPT ![m] = "ended"]
    ELSE meeting_status

\* a run that raises e where its record is run
RunRaises(r, run, e, revert) ==
    /\ vod_run' = [vod_run EXCEPT ![r] = Finally(Except(run, e, revert))]
    /\ meeting_status' = Reverted(run.meeting, revert)

\* process() from its first line to the GET of _download_to_file
ProcessBegins(r, store, revert) ==
    /\ vod_run[r].pc = "created"
    /\ vod_tasks' = [vod_tasks EXCEPT ![vod_run[r].meeting] = r]
    /\ LET run == [vod_run[r] EXCEPT !.status = "running", !.progress = Pct(5)]
       IN IF store = "raises"
          THEN RunRaises(r, run, StoreError, revert)
          ELSE /\ vod_run' = [vod_run EXCEPT ![r] =
                       [run EXCEPT !.progress = Pct(6), !.tmp = TRUE,
                                   !.pc = "get"]]
               /\ meeting_status' =
                       [meeting_status EXCEPT ![run.meeting] = "processing"]
    /\ UNCHANGED <<stt_request, dg_result, subtitles_table>>

\* the except clause of _download_to_file
DownloadRaises(r, e, revert) ==
    RunRaises(r, [vod_run[r] EXCEPT !.tmp = FALSE], e, revert)

\* the origin answers the GET: a status and a Content-Length (0: none)
DownloadResponds(r, http_status, total_size, revert) ==
    /\ vod_run[r].pc = "get"
    /\ IF http_status # 200
       THEN DownloadRaises(r, VodDownloadError, revert)
       ELSE /\ vod_run' = [vod_run EXCEPT ![r] =
                    [@ EXCEPT !.pc = "download", !.total_size = total_size]]
            /\ UNCHANGED meeting_status
    /\ UNCHANGED <<vod_tasks, stt_request, dg_result, subtitles_table>>

\* one chunk of iter_chunked
DownloadChunk(r) ==
    /\ vod_run[r].pc = "download"
    /\ vod_run[r].downloaded <
           (IF vod_run[r].total_size > 0 THEN vod_run[r].total_size
            ELSE MaxChunks)
    /\ LET downloaded == vod_run[r].downloaded + 1
           total_size == vod_run[r].total_size
       IN vod_run' = [vod_run EXCEPT ![r] =
              [@ EXCEPT !.downloaded = downloaded,
                        !.progress =
                            IF total_size > 0
                            THEN Pct(6) + (Pct(12) * downloaded) \div total_size
                            ELSE Pct(10)]]
    /\ UNCHANGED <<vod_tasks, meeting_status, stt_request, dg_result,
                   subtitles_table>>

\* the GET or a read of the body times out
DownloadBreaks(r, revert) ==
    /\ vod_run[r].pc \in {"get", "download"}
    /\ DownloadRaises(r, TimeoutError, revert)
    /\ UNCHANGED <<vod_tasks, stt_request, dg_result, subtitles_table>>

\* the body ends: _download_to_file returns, _send_to_deepgram starts the POST
DownloadEnds(r) ==
    /\ vod_run[r].pc = "download"
    /\ vod_run[r].total_size = 0 \/ vod_run[r].downloaded = vod_run[r].total_size
    /\ vod_run' = [vod_run EXCEPT ![r] =
           [@ EXCEPT !.mp4_path = TRUE, !.progress = Pct(40), !.pc = "post",
                     !.uploaded = 0]]
    /\ UNCHANGED <<vod_tasks, meeting_status, stt_request, dg_result,
                   subtitles_table>>

\* stream_file yields one chunk to the POST
UploadChunk(r) ==
    /\ vod_run[r].pc = "post"
    /\ vod_run[r].uploaded < vod_run[r].downloaded
    /\ LET uploaded == vod_run[r].uploaded + 1
           file_size == vod_run[r].downloaded
       IN vod_run' = [vod_run EXCEPT ![r] =
              [@ EXCEPT !.uploaded = uploaded,
                        !.progress = Pct(20) + (Pct(20) * uploaded) \div file_size]]
    /\ UNCHANGED <<vod_tasks, meeting_status, stt_request, dg_result,
                   subtitles_table>>

\* the POST times out
UploadBreaks(r, revert) ==
    /\ vod_run[r].pc = "post"
    /\ RunRaises(r, vod_run[r], TimeoutError, revert)
    /\ UNCHANGED <<vod_tasks, stt_request, dg_result, subtitles_table>>

\* a label that repeats the provider's index
VodSpeakerLabelSameIndex(speaker_idx) == speaker_idx

\* speaker_label: the number n of the label "화자 n", None without a speaker
VodSpeakerLabel(speaker_idx) ==
    IF speaker_idx # None THEN speaker_idx + 1 ELSE None

RECURSIVE ConfidenceSum(_)
\* sum(w.get("confidence", 0) for w in current_words)
ConfidenceSum(words) ==
    IF words = <<>> THEN 0
    ELSE Get(words[1], "confidence", 0) + ConfidenceSum(Tail(words))

RECURSIVE UtterancesToSubtitles(_, _)
\* the for-loop of _parse_deepgram_response over utterances
UtterancesToSubtitles(meeting_id, utterances) ==
    IF utterances = <<>> THEN <<>>
    ELSE LET utt == utterances[1]
             text == Strip(Get(utt, "transcript", <<>>))
             rest == UtterancesToSubtitles(meeting_id, Tail(utterances))
         IN IF text = <<>> THEN rest
            ELSE <<[meeting_id |-> meeting_id,
                    text |-> DictCorrect(text),
                    start_time |-> Get(utt, "start", 0),
                    end_time |-> Get(utt, "end", 0),
                    confidence |-> Get(utt, "confidence", 0),
                    speaker |-> VodSpeakerLabel(Get(utt, "speaker", None))]>>
                 \o rest

MaxSegmentDuration == 10

\* the segment _words_to_subtitles appends for current_words (none when its
\* text is empty)
SegmentOf(meeting_id, current_words, current_speaker, segment_start) ==
    LET n == Len(current_words)
        text == DictCorrect(Strip(Join(
                    [i \in 1..n |->
                        Get(current_words[i], "punctuated_word",
                            Get(current_words[i], "word", <<>>))])))
    IN IF text = <<>> THEN <<>>
       ELSE <<[meeting_id |-> meeting_id,
               text |-> text,
               start_time |-> segment_start,
               end_time |-> Get(current_words[n], "end", segment_start),
               confidence |-> Mean(ConfidenceSum(current_words), n),
               speaker |-> VodSpeakerLabel(current_speaker)]>>

RECURSIVE WordsFold(_, _, _)
\* the for-loop of _words_to_subtitles
WordsFold(meeting_id, st, words) ==
    IF words = <<>> THEN st
    ELSE LET word == words[1]
             speaker == Get(word, "speaker", None)
             word_start == Get(word, "start", 0)
             split == \/ speaker # st.current_speaker
                      \/ word_start - st.segment_start > MaxSegmentDuration
             st1 == IF split
                    THEN [subtitles |->
                              IF st.current_words # <<>>
                              THEN st.subtitles \o
                                   SegmentOf(meeting_id, st.current_words,
                                             st.current_speaker, st.segment_start)
                              ELSE st.subtitles,
                          current_words |-> <<>>,
                          current_speaker |-> speaker,
                          segment_start |-> word_start]
                    ELSE st
         IN WordsFold(meeting_id,
                      [st1 EXCEPT !.current_words = Append(@, word)],
                      Tail(words))

\* VodSttService._words_to_subtitles
WordsToSubtitles(meeting_id, words) ==
    IF words = <<>> THEN <<>>
    ELSE LET st == WordsFold(meeting_id,
                             [subtitles |-> <<>>, current_words |-> <<>>,
                              current_speaker |-> Get(words[1], "speaker", None),
                              segment_start |-> Get(words[1], "start", 0)],
                             words)
         IN IF st.current_words # <<>>
            THEN st.subtitles \o SegmentOf(meeting_id, st.current_words,
                                           st.current_speaker, st.segment_start)
            ELSE st.subtitles

\* VodSttService._parse_deepgram_response with the default dictionary; a
\* reply is its results.utterances and the words of its first alternative
ParseDeepgramResponse(meeting_id, reply) ==
    IF reply.utterances = <<>>
    THEN WordsToSubtitles(meeting_id, reply.words)
    ELSE UtterancesToSubtitles(meeting_id, reply.utterances)

MaxUtterances == 3

Utterance(transcript, start) ==
    [transcript |-> transcript, start |-> start, end |-> start + 2,
     confidence |-> 90 + start]

\* utterances the provider can send: plain, to be trimmed, to be corrected,
\* blank, empty, without transcript, with and without speaker
UtterancePool ==
    {Utterance(AnNyeongHaSeYo, 0) @@ [speaker |-> 0],
     Utterance(<<Space>> \o HoeUiReul \o <<Space>>, 3) @@ [speaker |-> 1],
     Utterance(<<"ui", "won", Space, "nim">>, 5),
     Utterance(<<Space, Space>>, 6) @@ [speaker |-> 0],
     Utterance(<<>>, 7) @@ [speaker |-> 1],
     [start |-> 8, end |-> 9, speaker |-> 0]}

WordLists ==
    {<<>>,
     <<Word(Ne, 0, 90, 0)>>,
     <<Word(<<"ui", "won">>, 0, 80, 0), Word(<<"nim">>, 0, 90, 1),
       Word(ONeulEun, 1, 70, 2)>>,
     <<Word(HoeUiReul, None, 80, 0), Word(<<>>, 0, 90, 12),
       Word(Ne, 0, 60, 13)>>}

NoReply == [utterances |-> <<>>, words |-> <<>>]

\* replies of the provider
Replies ==
    {[utterances |-> u, words |-> w] :
        u \in SeqsUpTo(UtterancePool, MaxUtterances), w \in WordLists}

\* the replies the pipeline is run with
PipelineReplies ==
    {NoReply,
     [utterances |-> <<Utterance(AnNyeongHaSeYo, 0)>>, words |-> <<>>]}

\* the provider answers the POST; lines 123-157 of process()
DeepgramReplies(r, code, reply, fault, revert) ==
    /\ vod_run[r].pc = "post"
    /\ code = 200 => vod_run[r].uploaded = vod_run[r].downloaded
    /\ IF code # 200
       THEN /\ RunRaises(r, vod_run[r], DeepgramError(code), revert)
            /\ UNCHANGED <<dg_result, subtitles_table>>
       ELSE LET run == [vod_run[r] EXCEPT !.tmp = FALSE, !.mp4_path = FALSE,
                                          !.progress = Pct(95)]
                all_subtitles == ParseDeepgramResponse(run.meeting, reply)
            IN /\ fault = "insert" => all_subtitles # <<>>
               /\ dg_result' = reply
               /\ subtitles_table' =
                      IF fault = "insert" THEN subtitles_table
                      ELSE subtitles_table \o all_subtitles
               /\ IF fault # "none"
                  THEN RunRaises(r, run, StoreError, revert)
                  ELSE /\ vod_run' = [vod_run EXCEPT ![r] =
                               Exited([run EXCEPT !.status = "completed",
                                                  !.progress = ProgressUnit,
                                                  !.exit = "completed"])]
                       /\ meeting_status' =
                               [meeting_status EXCEPT ![run.meeting] = "ended"]
    /\ UNCHANGED <<vod_tasks, stt_request>>

\* the task of a run is cancelled (the event loop shuts down): CancelledError
\* is no Exception, so only the finally clause of process() runs; a task
\* cancelled before its first step runs nothing
RunCancelled(r) ==
    /\ vod_run[r].pc \in {"created", "get", "download", "post"}
    /\ vod_run' = [vod_run EXCEPT ![r] =
           IF vod_run[r].pc = "created"
           THEN Exited([@ EXCEPT !.exit = "cancelled"])
           ELSE Finally([@ EXCEPT !.exit = "cancelled"])]
    /\ UNCHANGED <<vod_tasks, meeting_status, stt_request, dg_result,
                   subtitles_table>>

\* lines 129-143 of process() for one reply
ParseAndStore(reply) ==
    /\ dg_result = NoReply
    /\ dg_result' = reply
    /\ subtitles_table' =
           subtitles_table \o ParseDeepgramResponse(VodMeeting, reply)
    /\ UNCHANGED <<vod_tasks, vod_run, meeting_status, stt_request>>

-----------------------------------------------------------------------------
(* SubtitleCorrectorService: the caption refiner                            *)
(* (services/subtitle_corrector.py).  A caption id is the number of the     *)
(* enqueue call that carried it; texts are "a" and "b", "" is the empty     *)
(* text.  The settings subtitle_correction_* are not defined in             *)
(* core/config.py; batch_size stands for subtitle_correction_batch_size,    *)
(* and the interval is the moment the deadline step is taken.               *)

batch_size == 2
MaxEnqueued == 3
MaxItems == 2

RefTexts == {"a", "b"}
NoId == 0

\* the captions _emit_subtitle hands to enqueue: their room and their text
EmittedCaptions == {<<"ch8", "a">>, <<"ch14", "b">>}

\* the caption ids the rewriter's reply can name
ItemIds == {1, 2, 3}

NoBatch == [outcome |-> "none", batch |-> <<>>, reply |-> [kind |-> "none"],
            events |-> <<>>]

RefInit ==
    /\ corrector = "none"
    /\ ref_queue = <<>>
    /\ ref_worker = [pc |-> "none", batch |-> <<>>]
    /\ ref_enqueued = 0
    /\ ref_last = NoBatch

\* get_subtitle_corrector() and start() at application start-up; enabled is
\* subtitle_correction_enabled and bool(openai_api_key)
CorrectorStart(enabled) ==
    /\ corrector = "none"
    /\ corrector' = IF enabled THEN "enabled" ELSE "disabled"
    /\ ref_worker' = IF enabled THEN [pc |-> "get", batch |-> <<>>]
                     ELSE ref_worker
    /\ UNCHANGED <<ref_queue, ref_enqueued, ref_last>>

\* enqueue(subtitle_id, channel_id, text): a put into the unbounded queue
Enqueue(channel_id, text) ==
    /\ corrector # "none"
    /\ ref_enqueued < MaxEnqueued
    /\ IF corrector = "enabled"
       THEN /\ ref_queue' = Append(ref_queue,
                    [id |-> ref_enqueued + 1, channel_id |-> channel_id,
                     text |-> text])
            /\ ref_enqueued' = ref_enqueued + 1
       ELSE /\ ref_enqueued' = ref_enqueued + 1
            /\ UNCHANGED ref_queue
    /\ UNCHANGED <<corrector, ref_worker, ref_last>>

\* the worker with one more item in its batch: it goes on collecting while
\* len(batch) < batch_size, else it calls _correct_batch
Collected(batch) ==
    [pc |-> IF Len(batch) < batch_size THEN "collect" ELSE "create",
     batch |-> batch]

\* first = await self._queue.get()
WorkerGetFirst ==
    /\ ref_worker.pc = "get"
    /\ ref_queue # <<>>
    /\ ref_worker' = Collected(<<Head(ref_queue)>>)
    /\ ref_queue' = Tail(ref_queue)
    /\ ref_last' = NoBatch
    /\ UNCHANGED <<corrector, ref_enqueued>>

\* asyncio.wait_for(self._queue.get(), timeout=remaining) returns an item
WorkerGetNext ==
    /\ ref_worker.pc = "collect"
    /\ ref_queue # <<>>
    /\ ref_worker' = Collected(Append(ref_worker.batch, Head(ref_queue)))
    /\ ref_queue' = Tail(ref_queue)
    /\ UNCHANGED <<corrector, ref_enqueued, ref_last>>

\* the deadline passes: remaining <= 0, or wait_for raises TimeoutError
WorkerDeadline ==
    /\ ref_worker.pc = "collect"
    /\ ref_worker' = [ref_worker EXCEPT !.pc = "create"]
    /\ UNCHANGED <<corrector, ref_queue, ref_enqueued, ref_last>>

\* an entry of the corrections list that is a JSON object
IsObject(correction) == "junk" \notin DOMAIN correction

\* {s.id: s.<field> for s in batch}.get(sub_id, "")
BatchLookup(batch, sub_id, field) ==
    LET hits == {i \in DOMAIN batch : batch[i].id = sub_id}
    IN IF hits = {} THEN ""
       ELSE batch[CHOOSE i \in hits : \A j \in hits : j <= i][field]

\* the test that skips a correction without room, without text or unchanged:
\* this one lets unchanged texts through
ShouldEmitUnchanged(channel_id, corrected, original) ==
    channel_id # "" /\ corrected # ""

\* lines 214-219 of _correct_batch: whether a correction is broadcast
ShouldEmit(channel_id, corrected, original) ==
    /\ channel_id # "" /\ corrected # ""
    /\ corrected # original

RECURSIVE ForCorrections(_, _)
\* the for-loop of _correct_batch: the broadcast_corrected_subtitle calls it
\* makes, and whether it ran to its end or raised (at an entry that has no
\* .get)
ForCorrections(batch, items) ==
    IF items = <<>> THEN [events |-> <<>>, outcome |-> "ok"]
    ELSE LET correction == items[1] IN
         IF ~IsObject(correction) THEN [events |-> <<>>, outcome |-> "error"]
         ELSE LET sub_id == Get(correction, "id", NoId)
                  corrected == Get(correction, "corrected_text", "")
                  channel_id == BatchLookup(batch, sub_id, "channel_id")
                  original == BatchLookup(batch, sub_id, "text")
                  rest == ForCorrections(batch, Tail(items))
              IN IF ShouldEmit(channel_id, corrected, original)
                 THEN [rest EXCEPT !.events =
                          <<[room_id |-> channel_id, id |-> sub_id,
                             corrected_text |-> corrected]>> \o @]
                 ELSE rest

\* entries a corrections list can hold
ItemPool ==
    {[id |-> i, corrected_text |-> t] : i \in ItemIds, t \in RefTexts \cup {""}}
    \cup {[id |-> 1], [corrected_text |-> "b"], [junk |-> TRUE]}

\* what the rewriter can answer: the call raises, an empty content, a
\* content json.loads rejects, a JSON list, an object with a "corrections"
\* list, an object without that key
RefReplies ==
    {[kind |-> k] : k \in {"raises", "empty", "unparsable", "other_key"}}
    \cup {[kind |-> "list", items |-> <<item>>] : item \in ItemPool}
    \cup {[kind |-> "corrections", items |-> items] :
             items \in SeqsUpTo(ItemPool, MaxItems)}

\* corrections = result if isinstance(result, list) else result.get("corrections", [])
CorrectionsOf(reply) ==
    IF reply.kind \in {"list", "corrections"} THEN reply.items ELSE <<>>

\* _correct_batch from the reply of chat.completions.create to its return
CorrectBatch(batch, reply) ==
    IF reply.kind \in {"raises", "unparsable"}
    THEN [outcome |-> "error", batch |-> batch, reply |-> reply, events |-> <<>>]
    ELSE IF reply.kind = "empty"
    THEN [outcome |-> "ok", batch |-> batch, reply |-> reply, events |-> <<>>]
    ELSE LET done == ForCorrections(batch, CorrectionsOf(reply))
         IN [outcome |-> done.outcome, batch |-> batch, reply |-> reply,
             events |-> done.events]

\* the rewriter answers; the worker handles the reply and waits for the next
\* first item
RewriterReplies(reply) ==
    /\ ref_worker.pc = "create"
    /\ ref_last' = CorrectBatch(ref_worker.batch, reply)
    /\ ref_worker' = [pc |-> "get", batch |-> <<>>]
    /\ UNCHANGED <<corrector, ref_queue, ref_enqueued>>

-----------------------------------------------------------------------------

(* services/deepgram_stt.py: DeepgramService.transcribe                     *)

MaxRetries == 3
DEFAULT_RETRY_DELAY == 1

RECURSIVE Pow2(_)
Pow2(n) == IF n <= 0 THEN 1 ELSE 2 * Pow2(n - 1)

\* texts the API can return as the transcript
AsrTexts == {<<"ui", "won", Space, "nim">>, <<"ne">>}

\* what one _call_deepgram_api can do: return a result, or raise
\* RateLimitError (429), TimeoutError or APIError
ApiReplies ==
    {[kind |-> "ok", text |-> t] : t \in AsrTexts}
    \cup {[kind |-> k, text |-> <<>>] :
             k \in {"RateLimitError", "TimeoutError", "APIError"}}

NoCall ==
    [pc |-> "idle", audio_chunk |-> FALSE, max_retries |-> 0,
     apply_dictionary |-> FALSE, dictionary_service |-> FALSE,
     retries |-> 0, replies |-> <<>>, sleeps |-> <<>>,
     result |-> <<>>, raised |-> "none"]

AsrInit == transcribe_call = NoCall

\* line 143 and line 175: the loop test, and the raise after the loop
LoopTest(c) ==
    IF c.retries <= c.max_retries
    THEN [c EXCEPT !.pc = "call"]
    ELSE [c EXCEPT !.pc = "raised", !.raised = "RateLimitError"]

\* transcribe is called; audio_chunk: whether the bytes are non-empty
Transcribe(audio_chunk, max_retries, apply_dictionary, dictionary_service) ==
    /\ transcribe_call.pc = "idle"
    /\ LET c == [NoCall EXCEPT !.audio_chunk = audio_chunk,
                               !.max_retries = max_retries,
                               !.apply_dictionary = apply_dictionary,
                               !.dictionary_service = dictionary_service]
       IN  transcribe_call' =
               IF ~audio_chunk THEN [c EXCEPT !.pc = "returned"]
               ELSE LoopTest(c)

\* the back-off that gives up one retry early
RateLimitedStopsEarly(c) ==
    LET retries == c.retries + 1 IN
    IF retries < c.max_retries
    THEN [c EXCEPT !.retries = retries, !.pc = "sleep",
                   !.sleeps = Append(@, DEFAULT_RETRY_DELAY * Pow2(retries - 1))]
    ELSE [c EXCEPT !.retries = retries, !.pc = "raised",
                   !.raised = "RateLimitError"]

\* lines 165-172: `except RateLimitError`
RateLimited(c) ==
    LET retries == c.retries + 1 IN
    IF retries <= c.max_retries
    THEN [c EXCEPT !.retries = retries, !.pc = "sleep",
                   !.sleeps = Append(@, DEFAULT_RETRY_DELAY * Pow2(retries - 1))]
    ELSE LoopTest([c EXCEPT !.retries = retries])

\* lines 145-163 and 165-172: _call_deepgram_api returns or raises
ApiReplied(reply) ==
    /\ transcribe_call.pc = "call"
    /\ LET c == [transcribe_call EXCEPT !.replies = Append(@, reply)] IN
       transcribe_call' =
          CASE reply.kind = "ok" ->
                  [c EXCEPT !.pc = "returned",
                            !.result = IF c.apply_dictionary
                                          /\ c.dictionary_service
                                       THEN DictCorrect(reply.text)
                                       ELSE reply.text]
            [] reply.kind = "RateLimitError" -> RateLimited(c)
            [] OTHER -> [c EXCEPT !.pc = "raised", !.raised = reply.kind]

\* line 171: asyncio.sleep(delay) is over; `continue` goes to the loop test
RetrySleepDone ==
    /\ transcribe_call.pc = "sleep"
    /\ transcribe_call' = LoopTest(transcribe_call)

\* the call has ended; the service can be called again
TranscribeEnds ==
    /\ transcribe_call.pc \in {"returned", "raised"}
    /\ transcribe_call' = NoCall

-----------------------------------------------------------------------------

(* services/dictionary.py with every entry of the default dictionary, and   *)
(* calls of the two pure functions of the caption path                      *)

\* _PARLIAMENT_ENTRIES, in declaration order: (wrong_text, correct_text)
PARLIAMENT_ENTRIES == <<
    << <<"sa", "nae", "reul", Space, "seon", "po">>,
       <<"san", "hoe", "reul", Space, "seon", "po">> >>,
    << <<"sa", "nae", Space, "reul", Space, "seon", "po">>,
       <<"san", "hoe", "reul", Space, "seon", "po">> >>,
    << <<"sa", "nae", "seon", "po">>,
       <<"san", "hoe", Space, "seon", "po">> >>,
    << <<"sa", "nae", "hap", "ni", "da">>,
       <<"san", "hoe", "hap", "ni", "da">> >>,
    << <<"sa", "nae", "reul">>,
       <<"san", "hoe", "reul">> >>,
    << <<"sa", "nae", Space, "hap", "ni", "da">>,
       <<"san", "hoe", "hap", "ni", "da">> >>,
    << <<"gae", "i", "hap", "ni", "da">>,
       <<"gae", "ui", "hap", "ni", "da">> >>,
    << <<"gae", "i", "reul", Space, "seon", "po">>,
       <<"gae", "ui", "reul", Space, "seon", "po">> >>,
    << <<"jeong", "hoe", "reul", Space, "seon", "po">>,
       <<"jeong", "hoe", "reul", Space, "seon", "po">> >>,
    << <<"so", "gae", "hap", "ni", "da">>,
       <<"sok", "gae", "hap", "ni", "da">> >>,
    << <<"sok", "gye", "hap", "ni", "da">>,
       <<"sok", "gae", "hap", "ni", "da">> >>,
    << <<"sang", "jeong", Space, "ha", "gess", "seup", "ni", "da">>,
       <<"sang", "jeong", "ha", "gess", "seup", "ni", "da">> >>,
    << <<"ui", "an", "eul", Space, "sang", "jeong", Space, "hap", "ni", "da">>,
       <<"ui", "an", "eul", Space, "sang", "jeong", "hap", "ni", "da">> >>,
    << <<"ui", "gyeol", Space, "ha", "gess", "seup", "ni", "da">>,
       <<"ui", "gyeol", "ha", "gess", "seup", "ni", "da">> >>,
    << <<"wi", "won", "jang", Space, "nim">>,
       <<"wi", "won", "jang", "nim">> >>,
    << <<"ui", "won", Space, "nim">>,
       <<"ui", "won", "nim">> >>,
    << <<"do", "ji", "sa", Space, "nim">>,
       <<"do", "ji", "sa", "nim">> >>,
    << <<"gyeong", "gi", Space, "do", "ui", "hoe">>,
       <<"gyeong", "gi", "do", "ui", "hoe">> >>,
    << <<"gyeong", "gi", "do", Space, "ui", "hoe">>,
       <<"gyeong", "gi", "do", "ui", "hoe">> >>,
    << <<"bo", "geon", Space, "bok", "ji", Space, "wi", "won", "hoe">>,
       <<"bo", "geon", "bok", "ji", "wi", "won", "hoe">> >>,
    << <<"jil", "ui", Space, "ha", "gess", "seup", "ni", "da">>,
       <<"jil", "ui", "ha", "gess", "seup", "ni", "da">> >>,
    << <<"dap", "byeon", Space, "ha", "gess", "seup", "ni", "da">>,
       <<"dap", "byeon", "ha", "gess", "seup", "ni", "da">> >>,
    << <<"chul", "seok", "eul", Space, "bu", "reu", "gess", "seup", "ni", "da">>,
       <<"chul", "seok", "eul", Space, "bu", "reu", "gess", "seup", "ni", "da">> >> >>

RECURSIVE CorrectEntries(_, _, _)
\* the for-loop of DictionaryService.correct over entries i, i+1, ...
CorrectEntries(entries, t, i) ==
    IF i > Len(entries) THEN t
    ELSE CorrectEntries(entries, Replace(t, entries[i][1], entries[i][2]), i + 1)

\* get_default_dictionary().correct(text)
DefaultCorrect(text) ==
    IF text = <<>> THEN text ELSE CorrectEntries(PARLIAMENT_ENTRIES, text, 1)

MaxAffix == 1

WrongTexts == {PARLIAMENT_ENTRIES[i][1] : i \in DOMAIN PARLIAMENT_ENTRIES}
CorrectTexts == {PARLIAMENT_ENTRIES[i][2] : i \in DOMAIN PARLIAMENT_ENTRIES}

\* what can stand before or after a dictionary form: the beginnings and the
\* ends, up to MaxAffix characters, of the dictionary's own forms
Affixes ==
    UNION {{SubSeq(t, 1, k), SubSeq(t, Len(t) - k + 1, Len(t))} :
              t \in WrongTexts \cup CorrectTexts, k \in 0..MaxAffix}

\* the texts correct is called with: a wrong form in a context, and two
\* forms side by side
DictInputs ==
    {a \o w \o b : a \in Affixes, w \in WrongTexts, b \in Affixes}
    \cup {u \o v : u \in WrongTexts \cup CorrectTexts, v \in WrongTexts}

NoCorrectCall == [pc |-> "idle", x |-> <<>>, once |-> <<>>, twice |-> <<>>]

\* correct(x), and correct applied to what it returned
CorrectCall(x) ==
    /\ correct_call.pc = "idle"
    /\ LET once == DefaultCorrect(x) IN
       correct_call' = [pc |-> "done", x |-> x, once |-> once,
                        twice |-> DefaultCorrect(once)]
    /\ UNCHANGED group_call

MaxWordList == 4

\* the words of a reply: speaker None, 0 or 1; "word" alone or together
\* with "punctuated_word"
WordPool ==
    {[word |-> <<"ne">>, speaker |-> sp, confidence |-> 100] :
        sp \in {None, 0, 1}}
    \cup {[word |-> <<"yo">>, punctuated_word |-> <<"yo", ".">>,
           speaker |-> sp, confidence |-> 100] : sp \in {None, 0, 1}}

\* word i of a list starts at second 2i and ends at second 2i + 1
Timed(ws) ==
    [i \in DOMAIN ws |->
        [word |-> ws[i].word, speaker |-> ws[i].speaker,
         confidence |-> ws[i].confidence, start |-> 2 * i, end |-> 2 * i + 1]
        @@ (IF "punctuated_word" \in DOMAIN ws[i]
            THEN [punctuated_word |-> ws[i].punctuated_word]
            ELSE <<>>)]

NoGroupCall == [pc |-> "idle", words |-> <<>>, groups |-> <<>>]

\* group_words_by_speaker(words)
GroupCall(words) ==
    /\ group_call.pc = "idle"
    /\ group_call' = [pc |-> "done", words |-> words,
                      groups |-> GroupWordsBySpeaker(words)]
    /\ UNCHANGED correct_call

TextInit ==
    /\ correct_call = NoCorrectCall
    /\ group_call = NoGroupCall

-----------------------------------------------------------------------------

(* ChannelSttService._run_with_reconnect and _watchdog on a clock of whole  *)
(* seconds, for one worker that is not stopped.  A session that ends takes *)
(* its sub-tasks and its websocket with it (_run, lines 323-336).           *)

STALL_TIMEOUT == 60

\* since_receive and the age of a session are counted up to MaxSilence
MaxSilence == 91
\* consecutive failed sessions are counted up to MaxFails
MaxFails == 7

NoLoop ==
    [pc |-> "connect",   \* "connect" (in websockets.connect), "session"
                          \* (in asyncio.wait), "sleep" (line 277)
     delay |-> 1,         \* the local variable delay
     sleep_left |-> 0,    \* seconds left of asyncio.sleep(delay)
     cur_sleep |-> 0,     \* the delay of the last asyncio.sleep (0: none yet)
     last_exit |-> "none",\* how the last _run ended: "returned" | "raised"
     fails |-> 0,         \* _run calls that raised in a row
     heard |-> FALSE,     \* a frame has arrived on the open session
     age |-> 0,           \* seconds since the open session was opened,
                          \* counted until its first frame
     to_tick |-> 0,       \* seconds to the watchdog's next wake-up
     closed_by |-> "none",\* what ended the last session: "watchdog" | "other"
     silence |-> 0]       \* how long that session had been silent when it ended

\* start(), lines 189-195: the receive time is stamped, the task is created
WdInit ==
    /\ rl = NoLoop
    /\ since_receive = 0

Capped(n) == IF n < MaxSilence THEN n + 1 ELSE MaxSilence

\* seconds since the last frame of the open session, or since it was opened
Quiet == IF rl.heard THEN since_receive ELSE rl.age

\* one second passes while no timer of the worker is due
SecondPasses ==
    /\ rl.pc = "session" => rl.to_tick > 0
    /\ rl.pc = "sleep" => rl.sleep_left > 0
    /\ since_receive' = Capped(since_receive)
    /\ rl' = [rl EXCEPT
          !.age = IF rl.pc = "session" /\ ~rl.heard THEN Capped(@) ELSE @,
          !.to_tick = IF rl.pc = "session" THEN @ - 1 ELSE @,
          !.sleep_left = IF rl.pc = "sleep" THEN @ - 1 ELSE @]

\* _run, lines 305-326: the websocket is connected, the sub-tasks start;
\* the watchdog sleeps STALL_TIMEOUT / 2
SessionOpened ==
    /\ rl.pc = "connect"
    /\ rl' = [rl EXCEPT !.pc = "session", !.heard = FALSE, !.age = 0,
                        !.to_tick = STALL_TIMEOUT \div 2,
                        !.closed_by = "none", !.silence = 0]
    /\ UNCHANGED since_receive

\* lines 277: asyncio.sleep(delay) begins
Sleeping(l, delay) ==
    [l EXCEPT !.pc = "sleep", !.sleep_left = delay, !.cur_sleep = delay,
              !.heard = FALSE, !.age = 0, !.to_tick = 0]

\* _run raises at line 305; lines 272-277: the delay is kept
ConnectFailed ==
    /\ rl.pc = "connect"
    /\ rl' = Sleeping([rl EXCEPT !.last_exit = "raised",
                                 !.fails = IF @ < MaxFails THEN @ + 1 ELSE @,
                                 !.closed_by = "none", !.silence = 0],
                      rl.delay)
    /\ UNCHANGED since_receive

\* _run returns (lines 323-336); lines 266-268 and 277: delay = 1.0
SessionReturned(l, by) ==
    Sleeping([l EXCEPT !.last_exit = "returned", !.fails = 0, !.delay = 1,
                       !.closed_by = by, !.silence = Quiet],
             1)

\* _receive_transcripts, line 399: a frame of the provider arrives
FrameArrives ==
    /\ rl.pc = "session"
    /\ since_receive' = 0
    /\ rl' = [rl EXCEPT !.heard = TRUE, !.age = 0]

\* a watchdog that lets twice the timeout pass
StalledAtTwice(elapsed) == elapsed > 2 * STALL_TIMEOUT

\* _watchdog, line 588
Stalled(elapsed) == elapsed > STALL_TIMEOUT

\* _watchdog, lines 585-595: the watchdog wakes up; on a stall it closes the
\* websocket and returns, which ends the session
WatchdogTick ==
    /\ rl.pc = "session"
    /\ rl.to_tick = 0
    /\ LET elapsed == since_receive IN
       rl' = IF Stalled(elapsed)
             THEN SessionReturned(rl, "watchdog")
             ELSE [rl EXCEPT !.to_tick = STALL_TIMEOUT \div 2]
    /\ UNCHANGED since_receive

\* another sub-task finishes first (the provider closes the connection, the
\* keepalive cannot send)
SessionEnds ==
    /\ rl.pc = "session"
    /\ rl' = SessionReturned(rl, "other")
    /\ UNCHANGED since_receive

\* a delay that keeps doubling past the cap
NextDelayUncapped(delay) == delay * 2

\* line 278: delay = min(delay * 2, MAX_RECONNECT_DELAY)
NextDelay(delay) ==
    IF delay * 2 < MAX_RECONNECT_DELAY THEN delay * 2 ELSE MAX_RECONNECT_DELAY

\* lines 277-278: the sleep is over, the loop calls _run again
SleepOver ==
    /\ rl.pc = "sleep"
    /\ rl.sleep_left = 0
    /\ rl' = [rl EXCEPT !.pc = "connect", !.delay = NextDelay(@)]
    /\ UNCHANGED since_receive

-----------------------------------------------------------------------------

Init ==
    /\ HlsInit /\ BufInit /\ SvcInit /\ HubInit /\ StatusInit /\ AutoInit
    /\ VodInit /\ RefInit /\ AsrInit /\ TextInit /\ WdInit

NextHls ==
    \/ (\E resp \in Playlists : SendPoll(resp)) /\ UNCHANGED notHls
    \/ SendPollFail /\ UNCHANGED notHls
    \/ SegmentSent /\ UNCHANGED notHls
    \/ SegmentFetchFail /\ UNCHANGED notHls
    \/ SegmentSendFail /\ UNCHANGED notHls
    \/ SendSleep /\ UNCHANGED notHls
    \/ (\E u \in URIs : OriginChange(u)) /\ UNCHANGED notHls

SpecHls == Init /\ [][NextHls]_vars

NextBuf ==
    \/ RecvStart /\ UNCHANGED notBuf
    \/ (\E i \in DOMAIN FramePool : RecvIgnored(i)) /\ UNCHANGED notBuf
    \/ (\E i \in DOMAIN FramePool : RecvInterim(i)) /\ UNCHANGED notBuf
    \/ (\E i \in DOMAIN FramePool : RecvFinal(i)) /\ UNCHANGED notBuf
    \/ RecvResume /\ UNCHANGED notBuf
    \/ RecvEndGraceful /\ UNCHANGED notBuf
    \/ RecvFinalResume /\ UNCHANGED notBuf
    \/ RecvEndError /\ UNCHANGED notBuf
    \/ RecvCancelled /\ UNCHANGED notBuf

SpecBuf == Init /\ [][NextBuf]_vars

Next ==
    \/ (\E k \in Callers, c \in Requested : Start(k, c))
           /\ UNCHANGED notSvc
    \/ (\E k \in Callers, c \in Requested : Stop(k, c))
           /\ UNCHANGED notSvc
    \/ (\E k \in Callers : StopAll(k)) /\ UNCHANGED notSvc
    \/ (\E k \in Callers : StopTaskAwaited(k)) /\ UNCHANGED notSvc
    \/ (\E k \in Callers : StopParserClosed(k)) /\ UNCHANGED notSvc
    \/ (\E t \in Tasks : WorkerConnected(t)) /\ UNCHANGED notSvc
    \/ (\E t \in Tasks : WorkerConnectFailed(t)) /\ UNCHANGED notSvc
    \/ (\E t \in Tasks : WorkerWaitReturned(t)) /\ UNCHANGED notSvc
    \/ (\E t \in Tasks : WorkerSlept(t)) /\ UNCHANGED notSvc
    \/ (\E t \in Tasks, kind \in CloseKinds : WorkerCancelled(t, kind))
           /\ UNCHANGED notSvc
    \/ (\E t \in Tasks : WorkerClosed(t)) /\ UNCHANGED notSvc
    \/ (\E se \in Sessions : ReceiverBegin(se)) /\ UNCHANGED notSvc
    \/ (\E se \in Sessions, kind \in {"hold", "flush", "change"} :
            ReceiverFragment(se, kind)) /\ UNCHANGED notSvc
    \/ (\E se \in Sessions, flush \in BOOLEAN : ReceiverResume(se, flush))
           /\ UNCHANGED notSvc
    \/ (\E se \in Sessions : ReceiverEndOfStream(se))
           /\ UNCHANGED notSvc
    \/ (\E se \in Sessions : ReceiverFinalResume(se))
           /\ UNCHANGED notSvc
    \/ (\E se \in Sessions : ReceiverError(se)) /\ UNCHANGED notSvc
    \/ (\E se \in Sessions : KeepaliveReturns(se))
           /\ UNCHANGED notSvc
    \/ (\E se \in Sessions, kind \in CloseKinds : WatchdogCloses(se, kind))
           /\ UNCHANGED notSvc
    \/ (\E se \in Sessions, kind \in CloseKinds : ServerCloses(se, kind))
           /\ UNCHANGED notSvc

Spec == Init /\ [][Next]_vars

\* The same service driven by one caller at a time.
NextLoop ==
    \/ (\E c \in Requested : Start("http", c)) /\ UNCHANGED notSvc
    \/ (\E c \in Requested : Stop("http", c)) /\ UNCHANGED notSvc
    \/ StopAll("http") /\ UNCHANGED notSvc
    \/ StopTaskAwaited("http") /\ UNCHANGED notSvc
    \/ StopParserClosed("http") /\ UNCHANGED notSvc
    \/ (\E t \in Tasks : WorkerConnected(t)) /\ UNCHANGED notSvc
    \/ (\E t \in Tasks : WorkerConnectFailed(t)) /\ UNCHANGED notSvc
    \/ (\E t \in Tasks : WorkerWaitReturned(t)) /\ UNCHANGED notSvc
    \/ (\E t \in Tasks : WorkerSlept(t)) /\ UNCHANGED notSvc
    \/ (\E t \in Tasks, kind \in CloseKinds : WorkerCancelled(t, kind))
           /\ UNCHANGED notSvc
    \/ (\E t \in Tasks : WorkerClosed(t)) /\ UNCHANGED notSvc
    \/ (\E se \in Sessions : ReceiverBegin(se)) /\ UNCHANGED notSvc
    \/ (\E se \in Sessions, kind \in {"hold", "flush", "change"} :
            ReceiverFragment(se, kind)) /\ UNCHANGED notSvc
    \/ (\E se \in Sessions, flush \in BOOLEAN : ReceiverResume(se, flush))
           /\ UNCHANGED notSvc
    \/ (\E se \in Sessions : ReceiverEndOfStream(se))
           /\ UNCHANGED notSvc
    \/ (\E se \in Sessions : ReceiverFinalResume(se))
           /\ UNCHANGED notSvc
    \/ (\E se \in Sessions : ReceiverError(se)) /\ UNCHANGED notSvc
    \/ (\E se \in Sessions : KeepaliveReturns(se))
           /\ UNCHANGED notSvc
    \/ (\E se \in Sessions, kind \in CloseKinds : WatchdogCloses(se, kind))
           /\ UNCHANGED notSvc
    \/ (\E se \in Sessions, kind \in CloseKinds : ServerCloses(se, kind))
           /\ UNCHANGED notSvc

SpecLoop == Init /\ [][NextLoop]_vars

\* broadcast_* calls made so far
Calls == (next_id - 1) + interims + corrections

\* The hub with subscribers, two rooms and a few captions.
NextHub ==
    \/ (\E w \in Handles, r \in Rooms : Connect(w, r)) /\ UNCHANGED notHub
    \/ (\E w \in Handles : PeerCloses(w)) /\ UNCHANGED notHub
    \/ (\E w \in Handles : EndpointDisconnect(w)) /\ UNCHANGED notHub
    \/ (\E r \in Rooms :
           /\ Calls < MaxCalls
           /\ next_id <= MaxCaptions
           /\ BroadcastSubtitle("stt", r))
          /\ UNCHANGED notHub
    \/ (\E r \in Rooms :
           /\ Calls < MaxCalls
           /\ interims < MaxInterims
           /\ BroadcastInterim("stt", r))
          /\ UNCHANGED notHub
    \/ (\E r \in Rooms, t \in CorrectedTexts : \E id \in emitted[r] :
           /\ Calls < MaxCalls
           /\ corrections < MaxCorrections
           /\ BroadcastCorrected("corrector", r, id, t))
          /\ UNCHANGED notHub
    \/ (\E b \in Broadcasters : BroadcastStep(b)) /\ UNCHANGED notHub
    \/ (\E r \in Rooms : ClearHistory(r)) /\ UNCHANGED notHub

SpecHub == Init /\ [][NextHub]_vars

\* The history of one room over a long run of captions, no subscriber
\* connected.
NextHist ==
    \/ (next_id <= MaxBroadcasts /\ BroadcastSubtitle("stt", "ch8"))
          /\ UNCHANGED notHub
    \/ (interims < MaxInterims /\ BroadcastInterim("stt", "ch8"))
          /\ UNCHANGED notHub
    \/ ClearHistory("ch8") /\ UNCHANGED notHub

SpecHist == Init /\ [][NextHist]_vars

\* The poller with two callers, one subscriber and any replies.
NextStatus ==
    \/ (\E c \in Pollers : fetches < MaxFetches /\ Call(c))
          /\ UNCHANGED notStatus
    \/ (\E c \in Pollers : Acquired(c)) /\ UNCHANGED notStatus
    \/ (\E c \in Pollers, s \in Snapshots : FetchSucceeds(c, s))
          /\ UNCHANGED notStatus
    \/ (\E c \in Pollers : FetchFails(c)) /\ UNCHANGED notStatus
    \/ Tick /\ UNCHANGED notStatus
    \/ Subscribe("q1") /\ UNCHANGED notStatus
    \/ Unsubscribe("q1") /\ UNCHANGED notStatus
    \/ QueueGet("q1") /\ UNCHANGED notStatus

SpecStatus == Init /\ [][NextStatus]_vars

\* A long run of polls that each find a change, with one subscriber that
\* reads its queue and one that never does; both subscribe before the first
\* poll.
NextNotify ==
    \/ (fetches < MaxNotifyPolls /\ Call("sse")) /\ UNCHANGED notStatus
    \/ FetchSucceeds("sse", Flip(status)) /\ UNCHANGED notStatus
    \/ Tick /\ UNCHANGED notStatus
    \/ (\E q \in QueueIds : fetches = 0 /\ Subscribe(q)) /\ UNCHANGED notStatus
    \/ QueueGet("q1") /\ UNCHANGED notStatus

SpecNotify == Init /\ [][NextNotify]_vars

\* The supervisor's passes, with an HTTP client that stops workers.
NextAuto ==
    \/ (\E stt_auto_start \in BOOLEAN, status_map \in Snapshots :
            AutoStart(stt_auto_start, status_map)) /\ UNCHANGED notAuto
    \/ EnsureCalled /\ UNCHANGED notAuto
    \/ (\E status_map \in Snapshots : EnsureFetched(status_map))
           /\ UNCHANGED notAuto
    \/ (\E c \in Channels : auto_stt_manager # "none" /\ Stop("http", c))
           /\ UNCHANGED notSvc
    \/ StopTaskAwaited("http") /\ UNCHANGED notSvc
    \/ StopParserClosed("http") /\ UNCHANGED notSvc
    \/ (\E t \in Tasks, kind \in CloseKinds : WorkerCancelled(t, kind))
           /\ UNCHANGED notSvc

SpecAuto == Init /\ [][NextAuto]_vars

\* The supervisor from start-up to shutdown: its monitor, the poller that
\* publishes to it and the workers.
NextMon ==
    \/ (\E stt_auto_start \in BOOLEAN, status_map \in Snapshots :
            AutoStart(stt_auto_start, status_map)) /\ UNCHANGED notAuto
    \/ (\E new \in Reports : Announce(new)) /\ UNCHANGED notMon
    \/ MonitorSubscribes /\ UNCHANGED notMon
    \/ MonitorGet(FALSE) /\ UNCHANGED notMon
    \/ MonitorTaskAwaited(FALSE) /\ UNCHANGED notMon
    \/ MonitorParserClosed(FALSE) /\ UNCHANGED notMon
    \/ AutoStopCalled /\ UNCHANGED notMon
    \/ AutoStopMonitorAwaited /\ UNCHANGED notMon
    \/ AutoStopTaskAwaited /\ UNCHANGED notMon
    \/ AutoStopParserClosed /\ UNCHANGED notMon
    \/ (\E t \in Tasks, kind \in CloseKinds : WorkerCancelled(t, kind))
           /\ UNCHANGED notSvc

SpecMon == Init /\ [][NextMon]_vars

\* The steps of tasks that are ready to run or wait for a network operation
\* to complete (a websocket close, a client close).
Progress ==
    \/ MonitorSubscribes /\ UNCHANGED notMon
    \/ MonitorGet(FALSE) /\ UNCHANGED notMon
    \/ MonitorTaskAwaited(FALSE) /\ UNCHANGED notMon
    \/ MonitorParserClosed(FALSE) /\ UNCHANGED notMon
    \/ AutoStopMonitorAwaited /\ UNCHANGED notMon
    \/ AutoStopTaskAwaited /\ UNCHANGED notMon
    \/ AutoStopParserClosed /\ UNCHANGED notMon
    \/ (\E t \in Tasks, kind \in CloseKinds : WorkerCancelled(t, kind))
           /\ UNCHANGED notSvc

\* The event loop runs every task that is ready, and the network operations
\* complete: such a step is taken when it can be.
SpecStop == Init /\ [][NextMon]_vars /\ WF_vars(Progress)

\* what the origin reports next: the second channel goes off air, then a
\* code of no catalog channel goes on and off, and at some poll the first
\* channel goes live
Flaps(last) ==
    IF last["C501"] = LIVESTATUS_BROADCASTING
    THEN {[last EXCEPT !["C501"] = None]}
    ELSE {[last EXCEPT !["Z999"] = IF @ = None THEN 1 ELSE None]}
         \cup {[last EXCEPT !["A011"] = 1] : x \in {None} \cap {last["A011"]}}

\* The enabled supervisor over a long run of polls that each find a change:
\* it starts with the second channel live, and batches are published while
\* the monitor is suspended in a stop, until the worker has closed its
\* websocket or the playlist reader its client.
NextRecon ==
    \/ (\E status_map \in {m \in Snapshots : m["A011"] = None /\ m["C501"] = 1} :
            AutoStart(TRUE, status_map)) /\ UNCHANGED notAuto
    \/ (\E new \in Flaps(announced) : AnnounceWithin(new, MaxNotifyPolls))
           /\ UNCHANGED notMon
    \/ MonitorSubscribes /\ UNCHANGED notMon
    \/ MonitorGet(FALSE) /\ UNCHANGED notMon
    \/ MonitorTaskAwaited(FALSE) /\ UNCHANGED notMon
    \/ MonitorParserClosed(FALSE) /\ UNCHANGED notMon
    \/ (\E t \in Tasks : WorkerConnected(t)) /\ UNCHANGED notSvc
    \/ (\E t \in Tasks, kind \in CloseKinds : WorkerCancelled(t, kind))
           /\ UNCHANGED notSvc
    \/ (\E t \in Tasks : WorkerClosed(t)) /\ UNCHANGED notSvc

SpecRecon == Init /\ [][NextRecon]_vars

\* the catalog codes of a report: what fetch_status returns to ensure
AsSnapshot(report) == [code \in Codes |-> report[code]]

\* The supervisor while requests are served, with start calls that may
\* raise and with ensure calls.
NextFault ==
    \/ (\E stt_auto_start \in BOOLEAN, status_map \in Snapshots :
            AutoStart(stt_auto_start, status_map)) /\ UNCHANGED notAuto
    \/ (\E new \in Reports : Announce(new)) /\ UNCHANGED notMon
    \/ MonitorSubscribes /\ UNCHANGED notMon
    \/ (\E raises \in BOOLEAN : MonitorGet(raises)) /\ UNCHANGED notMon
    \/ (\E raises \in BOOLEAN : MonitorTaskAwaited(raises))
           /\ UNCHANGED notMon
    \/ (\E raises \in BOOLEAN : MonitorParserClosed(raises))
           /\ UNCHANGED notMon
    \/ EnsureCalled /\ UNCHANGED notAuto
    \/ EnsureFetched(AsSnapshot(announced)) /\ UNCHANGED notAuto
    \/ (\E bad \in Channels :
            EnsureFetchedStartRaises(AsSnapshot(announced), bad))
           /\ UNCHANGED notAuto
    \/ (\E t \in Tasks, kind \in CloseKinds : WorkerCancelled(t, kind))
           /\ UNCHANGED notSvc

SpecFault == Init /\ [][NextFault]_vars

\* The batch transcription of recorded meetings and its endpoint.
NextVod ==
    \/ (\E q \in SttRequests, id \in RequestIds : StartSttProcessing(q, id))
           /\ UNCHANGED notVod
    \/ (\E q \in SttRequests : SttSleepDone(q)) /\ UNCHANGED notVod
    \/ (\E r \in VodRuns, store \in StoreReplies, revert \in StoreReplies :
           ProcessBegins(r, store, revert))
           /\ UNCHANGED notVod
    \/ (\E r \in VodRuns, http_status \in {200, 404}, n \in 0..MaxChunks,
           revert \in StoreReplies : DownloadResponds(r, http_status, n, revert))
           /\ UNCHANGED notVod
    \/ (\E r \in VodRuns : DownloadChunk(r)) /\ UNCHANGED notVod
    \/ (\E r \in VodRuns, revert \in StoreReplies : DownloadBreaks(r, revert))
           /\ UNCHANGED notVod
    \/ (\E r \in VodRuns : DownloadEnds(r)) /\ UNCHANGED notVod
    \/ (\E r \in VodRuns : UploadChunk(r)) /\ UNCHANGED notVod
    \/ (\E r \in VodRuns, revert \in StoreReplies : UploadBreaks(r, revert))
           /\ UNCHANGED notVod
    \/ (\E r \in VodRuns, code \in {200, 429, 500}, reply \in PipelineReplies,
           fault \in {"none", "insert", "update"}, revert \in StoreReplies :
           DeepgramReplies(r, code, reply, fault, revert))
           /\ UNCHANGED notVod
    \/ (\E r \in VodRuns : RunCancelled(r)) /\ UNCHANGED notVod

SpecVod == Init /\ [][NextVod]_vars

\* _parse_deepgram_response over the replies of the provider.
NextParse ==
    (\E reply \in Replies : ParseAndStore(reply)) /\ UNCHANGED notVod

SpecParse == Init /\ [][NextParse]_vars


\* The caption refiner.
NextRef ==
    \/ (\E enabled \in BOOLEAN : CorrectorStart(enabled)) /\ UNCHANGED notRef
    \/ (\E e \in EmittedCaptions : Enqueue(e[1], e[2])) /\ UNCHANGED notRef
    \/ WorkerGetFirst /\ UNCHANGED notRef
    \/ WorkerGetNext /\ UNCHANGED notRef
    \/ WorkerDeadline /\ UNCHANGED notRef
    \/ (\E reply \in RefReplies : RewriterReplies(reply)) /\ UNCHANGED notRef

SpecRef == Init /\ [][NextRef]_vars

\* the steps of the refiner's worker
WorkerStep ==
    \/ WorkerGetFirst /\ UNCHANGED notRef
    \/ WorkerGetNext /\ UNCHANGED notRef
    \/ WorkerDeadline /\ UNCHANGED notRef
    \/ (\E reply \in RefReplies : RewriterReplies(reply)) /\ UNCHANGED notRef

\* The refiner with a worker that is scheduled whenever it can run and a
\* rewriter whose call ends.
SpecRefLive == SpecRef /\ WF_vars(WorkerStep)

\* DeepgramService.transcribe, one call after the other.
NextAsr ==
    \/ \E a \in BOOLEAN, m \in -1..MaxRetries, d \in BOOLEAN, s \in BOOLEAN :
          Transcribe(a, m, d, s) /\ UNCHANGED notAsr
    \/ \E reply \in ApiReplies : ApiReplied(reply) /\ UNCHANGED notAsr
    \/ RetrySleepDone /\ UNCHANGED notAsr
    \/ TranscribeEnds /\ UNCHANGED notAsr

SpecAsr == Init /\ [][NextAsr]_vars

\* DictionaryService.correct of the default dictionary, applied twice.
NextDict ==
    /\ correct_call.pc = "idle"
    /\ \E x \in DictInputs : CorrectCall(x)
    /\ UNCHANGED notText

SpecDict == Init /\ [][NextDict]_vars

\* group_words_by_speaker on every word list of up to MaxWordList words.
NextGroup ==
    /\ group_call.pc = "idle"
    /\ \E ws \in SeqsUpTo(WordPool, MaxWordList) : GroupCall(Timed(ws))
    /\ UNCHANGED notText

SpecGroup == Init /\ [][NextGroup]_vars

\* The reconnect loop and the watchdog of one worker, second by second.
NextWd ==
    \/ SecondPasses /\ UNCHANGED notWd
    \/ SessionOpened /\ UNCHANGED notWd
    \/ ConnectFailed /\ UNCHANGED notWd
    \/ FrameArrives /\ UNCHANGED notWd
    \/ WatchdogTick /\ UNCHANGED notWd
    \/ SessionEnds /\ UNCHANGED notWd
    \/ SleepOver /\ UNCHANGED notWd

SpecWd == Init /\ [][NextWd]_vars

\* Time goes on, a due timer fires, and the provider accepts a connection
\* again and again.
SpecWdLive ==
    /\ SpecWd
    /\ WF_vars(SecondPasses /\ UNCHANGED notWd)
    /\ WF_vars(WatchdogTick /\ UNCHANGED notWd)
    /\ WF_vars(SleepOver /\ UNCHANGED notWd)
    /\ SF_vars(SessionOpened /\ UNCHANGED notWd)

-----------------------------------------------------------------------------
(* Claims about the HLS playlist reader and the uploader (SpecHls)          *)

IsSubsequence(s, t) ==
    \E f \in [DOMAIN s -> DOMAIN t] :
        /\ \A i \in DOMAIN s : t[f[i]] = s[i]
        /\ \A i, j \in DOMAIN s : i < j => f[i] < f[j]

\* C5: over the lifetime of one parser get_new_segments returns each URI at
\* most once and in playlist order, so each segment is uploaded at most once;
\* the same response applied twice in succession returns the empty list the
\* second time.
C5_EachUriReturnedAtMostOnce ==
    /\ \A u \in URIs : retCount[u] <= 1
    /\ \A u \in URIs : Count(sent, u) <= 1
    /\ IsSubsequence(lastRet, lastResp) \/ lastResp = NoResp
    /\ (prevResp = lastResp) => (lastRet = <<>>)

\* C6 as stated: a segment whose fetch failed once, and which a later poll
\* lists while the origin serves it, has had its bytes written exactly once
\* when that poll is over.
C6_FailedSegmentSentExactlyOnce ==
    \A u \in relisted : (hpc = "sleep") => (Count(sent, u) = 1)

\* C6 amended: a segment whose fetch failed is never handed to the download
\* loop by a later poll, and no later poll writes its bytes, even when the
\* URI is still listed and the origin serves it.
C6_FailedSegmentNeverRetried ==
    /\ \A i \in DOMAIN new_segments : new_segments[i] \notin failedEarlier
    /\ sentLate = {}

\* A failed segment was listed again while fetchable, that poll is over, and
\* its bytes were never written.
C6_Witness ==
    \E u \in relisted : /\ hpc = "sleep"
                         /\ u \in failed
                         /\ origin[u]
                         /\ Count(sent, u) = 0

-----------------------------------------------------------------------------
(* Claims about the Sentence Buffer and the receiver (SpecBuf)              *)

KnownSpeakers(part_speakers) == Range(part_speakers) \ {None}

Raws(caps) == [i \in DOMAIN caps |-> caps[i].raw]

IsPrefix(s, t) == Len(s) <= Len(t) /\ SubSeq(t, 1, Len(s)) = s

\* C7: the fragments held in the Sentence Buffer never carry more than one
\* speaker index, the buffer's speaker is that index, every caption is
\* labelled with the one speaker of its fragments, and a run of another
\* speaker makes the receiver emit the buffered text under the old speaker
\* before that run is added.
C7_BufferHasOneSpeaker ==
    /\ Cardinality(KnownSpeakers(buffer.part_speakers)) <= 1
    /\ KnownSpeakers(buffer.part_speakers) \subseteq {buffer.speaker}
    /\ \A i \in DOMAIN captions :
          /\ Cardinality(KnownSpeakers(captions[i].part_speakers)) <= 1
          /\ \A sp \in KnownSpeakers(captions[i].part_speakers) :
                captions[i].speaker = sp + 1
    /\ rpc = "emit_change" =>
          /\ captions # <<>>
          /\ captions[Len(captions)].raw = BufText(buffer)
          /\ captions[Len(captions)].speaker = buffer.speaker + 1
          /\ pending # <<>>
          /\ pending[1].speaker # buffer.speaker
          /\ Len(buffer.parts) = Len(buffer.part_speakers)

\* The receiver is suspended in the speaker-change flush of a buffer whose
\* text meets no flush condition of its own.
C7_Witness ==
    /\ rpc = "emit_change"
    /\ ~ShouldFlush(buffer)
    /\ buffer.speaker = 0
    /\ pending[1].speaker = 1
    /\ captions[Len(captions)].speaker = 1

ScenarioDone == scenarioPos = Len(Scenario) /\ rpc \in {"recv", "idle"}

C9_FlushedEqualsAdded ==
    (rpc = "idle" /\ sessionEnd # "none") =>
        NoSpaces(Concat(Raws(captions))) = NoSpaces(Concat(addedRuns))

\* C9 amended: whenever the receiver awaits a frame, the flushed texts in
\* emission order followed by the text still buffered equal the added run
\* texts in arrival order (modulo whitespace); a session that ends gracefully
\* has flushed all of them, a session that ends by an error or a cancellation
\* has flushed a prefix and drops the rest; captions are emitted in the order
\* of their last fragment, and no caption is emitted before a run was added.
C9_FlushedPlusBufferedEqualsAdded ==
    /\ rpc = "recv" =>
          NoSpaces(Concat(Raws(captions)) \o BufText(buffer))
             = NoSpaces(Concat(addedRuns))
    /\ rpc \in {"emit_change", "emit_flush", "emit_final"} =>
          NoSpaces(Concat(Raws(captions))) = NoSpaces(Concat(addedRuns))
    /\ (rpc = "idle" /\ sessionEnd = "graceful") =>
          NoSpaces(Concat(Raws(captions))) = NoSpaces(Concat(addedRuns))
    /\ (rpc = "idle" /\ sessionEnd \in {"error", "cancelled"}) =>
          IsPrefix(NoSpaces(Concat(Raws(captions))), NoSpaces(Concat(addedRuns)))
    /\ \A i, j \in DOMAIN captions :
          i < j => captions[i].end_time <= captions[j].start_time
    /\ \A i \in DOMAIN captions : captions[i].raw # <<>>
    /\ addedRuns = <<>> => captions = <<>>

\* A session ended by an error while the buffer held an unflushed run, after
\* an earlier caption.
C9_Witness ==
    /\ rpc = "idle"
    /\ sessionEnd = "error"
    /\ buffer.parts # <<>>
    /\ captions # <<>>
    /\ Len(addedRuns) > Len(captions)

\* C10: within the output of one worker, across its sessions, every caption's
\* start_time is at least the start_time of the caption emitted before it.
C10_StartTimesNonDecreasing ==
    prevStart # None => prevStart <= lastStart

RECURSIVE SumConfidence(_)
SumConfidence(rs) ==
    IF rs = <<>> THEN 0 ELSE rs[1].confidence + SumConfidence(Tail(rs))

RECURSIVE LastKnownSpeaker(_)
\* the speaker of the last run that carries one, None when no run does
LastKnownSpeaker(rs) ==
    IF rs = <<>> THEN None
    ELSE IF rs[Len(rs)].speaker # None THEN rs[Len(rs)].speaker
    ELSE LastKnownSpeaker(SubSeq(rs, 1, Len(rs) - 1))

\* runs in time order with confidences between 0 and 1 (0..100 percent)
WellFormedRuns(rs) ==
    /\ \A i \in DOMAIN rs :
          /\ rs[i].start <= rs[i].end
          /\ rs[i].confidence >= 0
          /\ rs[i].confidence <= 100
    /\ \A i, j \in DOMAIN rs : i < j => rs[i].start <= rs[j].start

\* C11: every emitted caption has the start of the first run added since the
\* last flush, the end of the last run added, the arithmetic mean of the added
\* runs' confidences (kept as sum over count) and the label speaker+1 of the
\* buffer's speaker, null without one; so start <= end and the confidence is
\* between 0 and 1 when the runs are time-ordered with confidences in [0,1].
C11_CaptionSummarisesRuns ==
    \A i \in DOMAIN captions :
        LET c == captions[i]
            rs == c.runs
        IN /\ rs # <<>>
           /\ c.start_time = rs[1].start
           /\ c.end_time = rs[Len(rs)].end
           /\ c.confidence.den = Len(rs)
           /\ c.confidence.num = SumConfidence(rs)
           /\ c.speaker = IF LastKnownSpeaker(rs) = None THEN None
                          ELSE LastKnownSpeaker(rs) + 1
           /\ WellFormedRuns(rs) =>
                 /\ c.start_time <= c.end_time
                 /\ 0 <= c.confidence.num
                 /\ c.confidence.num <= 100 * c.confidence.den

\* A caption made of several runs with different confidences and start
\* times, after an earlier flush in the same session.
C11_Witness ==
    /\ Len(captions) >= 2
    /\ LET c == captions[Len(captions)]
       IN /\ Len(c.runs) >= 2
          /\ c.runs[1].confidence # c.runs[2].confidence
          /\ c.runs[1].start < c.runs[2].start
          /\ c.start_time = c.runs[1].start
          /\ c.speaker # None
          /\ WellFormedRuns(c.runs)

-----------------------------------------------------------------------------
(* Claims about the subscriber hub (SpecHist, SpecHub)                      *)

\* the last n elements of s
LastN(s, n) == IF Len(s) > n THEN SubSeq(s, Len(s) - n + 1, Len(s)) ELSE s

CaptionIds(history) == [i \in DOMAIN history |-> history[i].id]

Min(a, b) == IF a <= b THEN a ELSE b

\* C12: in every reachable state the history of every room is exactly the
\* most recent min(n, 200) captions passed to broadcast_subtitle for the room
\* since its history was last cleared, in broadcast order, and a
\* broadcast_interim_subtitle call leaves every history as it was.
C12_HistoryIsRecentWindow ==
    /\ [](\A r \in Rooms :
            /\ Len(room_history[r]) = Min(Len(passed[r]), HISTORY_SIZE)
            /\ CaptionIds(room_history[r]) = LastN(passed[r], HISTORY_SIZE))
    /\ [][interims' # interims => room_history' = room_history]_vars

\* C12, last part: the receiver's interim branch never adds to the Sentence
\* Buffer (checked under SpecBuf).
C12_InterimNeverBuffered ==
    [][(\E i \in DOMAIN FramePool : RecvInterim(i)) => buffer' = buffer]_vars

\* More than 200 captions were passed since the last clear, after an earlier
\* clear and an interim broadcast: the oldest ones are gone.
C12_Witness ==
    /\ Len(passed["ch8"]) > HISTORY_SIZE
    /\ passed["ch8"][1] > 1
    /\ Len(room_history["ch8"]) = HISTORY_SIZE
    /\ room_history["ch8"][1].id = passed["ch8"][1] + 1
    /\ interims > 0

\* the broadcast_subtitle call for caption id is still delivering
Delivering(id) ==
    \E b \in Broadcasters :
        /\ btask[b].pc = "loop"
        /\ btask[b].msg.type = "subtitle_created"
        /\ btask[b].msg.id = id

\* a handle that is connected and whose sends have all succeeded
Healthy(w) == handle[w].state = "open" /\ ~handle[w].broken

\* first part of C13: the history comes first, once, with the k captions the
\* room held at the connect, in emission order
HistoryFirst(w) ==
    handle[w].joined # <<>> =>
        /\ handle[w].inbox # <<>>
        /\ handle[w].inbox[1] =
              Msg("subtitle_history", None, None, handle[w].joined)
        /\ \A i \in DOMAIN handle[w].inbox :
              i > 1 => handle[w].inbox[i].type # "subtitle_history"

\* second part of C13: a subtitle_created message for every caption whose
\* broadcast began after the connect and has returned
CreatedForEveryCaption(w) ==
    \A id \in handle[w].due :
        ~Delivering(id) =>
            \E i \in DOMAIN handle[w].inbox :
                /\ handle[w].inbox[i].type = "subtitle_created"
                /\ handle[w].inbox[i].id = id

\* C13: a handle that connects to a room holding k >= 1 captions receives as
\* its first message one subtitle_history with exactly those captions in
\* emission order, and afterwards a subtitle_created message for every
\* caption broadcast to the room after it connected, for as long as it stays
\* connected and its sends succeed.
C13_HistoryThenEveryCaption ==
    \A w \in Handles :
        (Healthy(w) /\ handle[w].joined # <<>>) =>
            HistoryFirst(w) /\ CreatedForEveryCaption(w)

\* C14: when a broadcast_subtitle(r, caption) call has returned, delivery
\* was attempted to no handle of another room, every handle whose send raised
\* is out of r's list, and every handle that was in r's list from the call to
\* its return and whose send did not raise was sent the message exactly
\* once, whatever other handles failed or disconnected meanwhile.
C14_EveryOtherHandleExactlyOnce ==
    \A b \in Broadcasters :
        LET t == btask[b]
        IN (t.pc = "done" /\ t.msg.type = "subtitle_created") =>
              /\ \A i \in DOMAIN t.attempted :
                    handle[t.attempted[i]].room \in {t.room, NoRoom}
              /\ \A w \in t.disconnected :
                    w \notin Range(active_connections[t.room])
              /\ \A w \in Handles : Count(t.attempted, w) <= 1
              /\ \A w \in t.members : Count(t.attempted, w) = 1

\* C15: after broadcast_corrected_subtitle(r, {id, corrected_text}) for an id
\* present in r's history the entry's text is corrected_text, and the
\* original_text of every corrected entry is the text as originally emitted,
\* also after several corrections of the same caption; an entry that no
\* correction named is as it was emitted.
C15_CorrectionKeepsOriginalText ==
    /\ \A r \in Rooms : \A i \in DOMAIN room_history[r] :
          LET c == room_history[r][i]
          IN IF c.is_corrected
             THEN /\ c.text \in CorrectedTexts
                  /\ c.original_text = EmittedText(c.id)
             ELSE c = NewCaption(c.id)
    /\ LET t == btask["corrector"]
       IN t.msg.type = "subtitle_corrected" =>
             \A i \in DOMAIN room_history[t.room] :
                 room_history[t.room][i].id = t.msg.id =>
                     room_history[t.room][i].text = t.msg.text

\* C15, the parts that hold: a correction changes no entry but the one with
\* its id, and that entry's text becomes the corrected text.
C15_OnlyNamedEntryChanges ==
    [][corrections' # corrections =>
         LET t == btask'["corrector"]
         IN \A r \in Rooms :
              /\ DOMAIN room_history'[r] = DOMAIN room_history[r]
              /\ \A i \in DOMAIN room_history[r] :
                   IF r = t.room /\ room_history[r][i].id = t.msg.id
                   THEN room_history'[r][i].text = t.msg.text
                   ELSE room_history'[r][i] = room_history[r][i]]_vars

\* the caption ids a handle was sent inside a subtitle_history message
HistoryIds(w) ==
    UNION {{handle[w].inbox[i].subtitles[j].id :
                j \in DOMAIN handle[w].inbox[i].subtitles} :
           i \in {k \in DOMAIN handle[w].inbox :
                      handle[w].inbox[k].type = "subtitle_history"}}

\* how many times a handle was sent caption id, in either kind of message
TimesDelivered(w, id) ==
    (IF id \in HistoryIds(w) THEN 1 ELSE 0)
    + Cardinality({i \in DOMAIN handle[w].inbox :
                      /\ handle[w].inbox[i].type = "subtitle_created"
                      /\ handle[w].inbox[i].id = id})

\* the captions the room held when the handle connected and those whose
\* broadcast began while it was in the room's list
Owed(w) == {handle[w].joined[i].id : i \in DOMAIN handle[w].joined}
               \cup handle[w].due

\* C39: a handle that connects while captions are being broadcast is sent
\* every caption stored at its connect or broadcast from then on exactly
\* once, inside its subtitle_history or as a subtitle_created message, never
\* in both and never in neither, however the connect interleaves with a
\* broadcast_subtitle call in progress.
C39_EachCaptionDeliveredExactlyOnce ==
    \A w \in Handles :
        Healthy(w) =>
            \A id \in 1..(next_id - 1) :
                /\ TimesDelivered(w, id) <= 1
                /\ (id \in Owed(w) /\ ~Delivering(id)) =>
                       TimesDelivered(w, id) = 1

-----------------------------------------------------------------------------
(* Claims about the status poller (SpecStatus, SpecNotify)                  *)

\* C16: at most one outbound request is in flight at any time; the callers
\* that invoke fetch_status together while the cache is expired cause exactly
\* one outbound request, and all of them return the same snapshot.
C16_OneRequestPerGroup ==
    /\ Cardinality({c \in Pollers : poller[c] = "request"}) <= 1
    /\ grp.requests <= 1
    /\ (InSlowPath = {} /\ grp.members # {}) =>
          /\ grp.requests = 1
          /\ Cardinality(grp.rets) = 1

\* a step in which an outbound request fails
FetchFailure ==
    \E c \in Pollers :
        /\ poller[c] = "request"
        /\ poller'[c] = "idle"
        /\ last_fetch'.outcome = "failed"

\* C17: when an outbound fetch fails, the stored snapshot stays as it was, no
\* batch reaches any subscriber queue, fetch_status returns the prior
\* snapshot, and the cache is stamped so that it is expired one second later.
C17_FailureKeepsSnapshot ==
    [][FetchFailure =>
          /\ status' = status
          /\ queues' = queues
          /\ subscribers' = subscribers
          /\ published' = published
          /\ last_fetch'.ret = status
          /\ age' + 1 >= CACHE_TTL_SECONDS]_vars

\* A request failed while a snapshot was stored and a subscriber listened;
\* a second later a caller has issued the next request.
C17_Witness ==
    /\ last_fetch.outcome = "failed"
    /\ status # EmptySnapshot
    /\ last_fetch.ret = status
    /\ subscribers # <<>>
    /\ age = CACHE_TTL_SECONDS
    /\ \E c \in Pollers : poller[c] = "request"

\* a step in which an outbound request succeeds
FetchSuccess ==
    \E c \in Pollers :
        /\ poller[c] = "request"
        /\ poller'[c] = "idle"
        /\ last_fetch'.outcome = "ok"

RECURSIVE ApplyChanges(_, _)
\* the snapshot with every change of the list applied to it
ApplyChanges(changes, snapshot) ==
    IF changes = <<>> THEN snapshot
    ELSE ApplyChanges(Tail(changes),
                      [snapshot EXCEPT ![changes[1].code] = changes[1].new_status])

\* C18: after each successful fetch the change list has exactly one entry
\* (code, old, new) for every code whose status differs between the prior and
\* the new snapshot, codes that appear or disappear included, and none for an
\* unchanged code; an empty list is not published, a non-empty one is
\* published once; applying the list to the prior snapshot gives the new one.
C18_ChangesAreTheDiff ==
    [][FetchSuccess =>
          LET a == status
              b == status'
              changes == last_fetch'.changes
          IN /\ \A code \in Codes :
                   LET entries == {i \in DOMAIN changes : changes[i].code = code}
                   IN IF a[code] # b[code]
                      THEN /\ Cardinality(entries) = 1
                           /\ \A i \in entries :
                                 /\ changes[i].old_status = a[code]
                                 /\ changes[i].new_status = b[code]
                      ELSE entries = {}
             /\ a = b => changes = <<>>
             /\ ApplyChanges(changes, a) = b
             /\ IF changes = <<>>
                THEN published' = published /\ queues' = queues
                ELSE /\ published' = published + 1
                     /\ \A q \in Range(subscribers) :
                           Len(queues[q]) < QUEUE_MAXSIZE =>
                              /\ Len(queues'[q]) = Len(queues[q]) + 1
                              /\ queues'[q][Len(queues'[q])].changes = changes]_vars

\* A fetch found one code gone and the other one unchanged, and the
\* subscriber's queue holds that batch.
C18_Witness ==
    /\ last_fetch.outcome = "ok"
    /\ Len(last_fetch.changes) = 1
    /\ last_fetch.changes[1].old_status # None
    /\ last_fetch.changes[1].new_status = None
    /\ status # EmptySnapshot
    /\ queues["q1"] # <<>>
    /\ queues["q1"][Len(queues["q1"])].changes = last_fetch.changes

\* the batches a queue holds are the ones published after the n-th, in order
HoldsBatchesAfter(q, n) ==
    \A i \in DOMAIN queues[q] : queues[q][i].n = n + i

\* C19: a published batch is appended, in publication order, to the queue of
\* every subscriber with free capacity, in the same step in which the fetch
\* returns; a subscriber is removed only when its queue already holds 50
\* batches, it receives nothing afterwards, and the remaining subscribers
\* have received every batch published since they subscribed.
C19_SlowSubscriberEvicted ==
    /\ [](\A q \in QueueIds :
            subscribed_at[q] # None =>
               /\ HoldsBatchesAfter(q, subscribed_at[q] + consumed[q])
               /\ Len(queues[q]) <= QUEUE_MAXSIZE
               /\ q \in Range(subscribers) =>
                     subscribed_at[q] + consumed[q] + Len(queues[q]) = published)
    /\ [][\A q \in QueueIds :
            /\ (q \in Range(subscribers) /\ q \notin Range(subscribers')) =>
                  /\ Len(queues[q]) = QUEUE_MAXSIZE
                  /\ queues'[q] = queues[q]
                  /\ published' = published + 1
            /\ q \notin Range(subscribers) =>
                  Len(queues'[q]) <= Len(queues[q])]_vars

\* The subscriber that never reads was evicted with 50 batches queued, and
\* the other one has received the batch published at the eviction and the
\* one after it.
C19_Witness ==
    /\ subscribed_at["q2"] # None
    /\ "q2" \notin Range(subscribers)
    /\ Len(queues["q2"]) = QUEUE_MAXSIZE
    /\ "q1" \in Range(subscribers)
    /\ published = QUEUE_MAXSIZE + 2
    /\ consumed["q1"] + Len(queues["q1"]) = published
    /\ queues["q1"] # <<>>

-----------------------------------------------------------------------------
(* Claims about the worker supervisor (SpecAuto)                            *)

\* A channel with an entry in _active_tasks has a task that is not done:
\* stop removes the entry before it cancels the task.
RegisteredIsRunning ==
    \A c \in Channels : active_tasks[c] # None => is_running(Svc, c)

\* Channels whose worker was created by the step.
Begun == {c \in Channels : active_tasks'[c] # active_tasks[c]}

\* The step is a pass that has run its loop, or a start() that found the
\* supervisor disabled.
PassStep ==
    \/ auto_stt_manager = "none" /\ auto_stt_manager' # "none"
    \/ ensure_pc = "fetch" /\ ensure_pc' = "idle"

-----------------------------------------------------------------------------
(* Claims about the supervisor's monitor and shutdown (SpecMon)             *)

RECURSIVE Flatten(_)
Flatten(batches) ==
    IF batches = <<>> THEN <<>>
    ELSE Head(batches).changes \o Flatten(Tail(batches))

\* A change to live, and one from live, as the claim words them.
ToLive(change) == change.new_status = 1 /\ change.old_status # 1
FromLive(change) == change.old_status = 1 /\ change.new_status # 1

\* The changes whose handling the step completes.
NewlyHandled ==
    {monitor'.handled[i] : i \in (Len(monitor.handled) + 1)
                                     ..Len(monitor'.handled)}

\* The channel whose stop the monitor is suspended in after the step.
StoppingNow ==
    IF monitor'.pc = "stop"
    THEN {get_channel_by_code(Head(monitor'.todo).code)} ELSE {}

\* C21: a handled change of a catalog code leaves a worker running when the
\* channel went live and none running when it went off air; a step of the
\* monitor creates workers only for changes to live that it handles and
\* removes only the worker of the change from live it is stopping; other
\* transitions and codes outside the catalog cause no call; the monitor
\* takes the batches in the order published and handles their changes in
\* order.
C21_MonitorFollowsChanges ==
    /\ [](\A i \in DOMAIN monitor.handled :
             LET h == monitor.handled[i]
                 c == get_channel_by_code(h.change.code)
             IN  /\ c = NoChannel => h.call = "none"
                 /\ c # NoChannel /\ ToLive(h.change) =>
                       h.running /\ h.call \in {"start", "none"}
                 /\ c # NoChannel /\ FromLive(h.change) =>
                       ~h.running /\ h.call \in {"stop", "none"}
                 /\ ~ToLive(h.change) /\ ~FromLive(h.change) =>
                       h.call = "none")
    /\ [](/\ Flatten(monitor.got)
               = [i \in DOMAIN monitor.handled |-> monitor.handled[i].change]
                    \o monitor.todo
          /\ \A i \in DOMAIN monitor.got :
                monitor.got[i].n = subscribed_at[MonitorQueue] + i)
    /\ [][monitor.pc \in {"get", "stop"} /\ monitor' # monitor =>
            /\ \A c \in Channels :
                  active_tasks'[c] \notin {active_tasks[c], None} =>
                     \E h \in NewlyHandled :
                        /\ get_channel_by_code(h.change.code) = c
                        /\ ToLive(h.change)
                        /\ h.call = "start"
                        /\ ~is_running(Svc, c)
            /\ \A c \in Channels :
                  active_tasks[c] # None /\ active_tasks'[c] = None =>
                     /\ c \in StoppingNow
                     /\ FromLive(Head(monitor'.todo))
            /\ \A h \in NewlyHandled :
                  h.call = "none" =>
                     LET c == get_channel_by_code(h.change.code) IN
                     c # NoChannel =>
                        active_tasks'[c] = active_tasks[c]
                        \/ \E g \in NewlyHandled :
                              g # h /\ g.change.code = h.change.code]_vars

\* The monitor started the worker of ch14 for one batch, stopped it for the
\* next, and ignored a change of a code that is in no catalog entry.
C21_Witness ==
    /\ \E i, j \in DOMAIN monitor.handled :
          /\ i < j
          /\ monitor.handled[i].change.code = "A011"
          /\ monitor.handled[i].call = "start"
          /\ monitor.handled[j].change.code = "A011"
          /\ monitor.handled[j].call = "stop"
    /\ \E i \in DOMAIN monitor.handled :
          /\ monitor.handled[i].change.code = "Z999"
          /\ monitor.handled[i].change.new_status = 1
    /\ Len(monitor.got) = 2
    /\ ~is_running(Svc, "ch14")

\* The monitor's half of C22 (SpecFault): a start or stop that raises ends
\* neither the handler nor the task; every change of every batch taken is
\* handled or still to handle, in order, and a change after one whose start
\* raised is handled like any other.
C22_MonitorSurvivesFailures ==
    /\ monitor.pc # "done"
    /\ Flatten(monitor.got)
         = [i \in DOMAIN monitor.handled |-> monitor.handled[i].change]
              \o monitor.todo

\* C22: a start or stop that raises while the supervisor handles a status
\* change is never propagated, neither out of the monitor's handler nor out
\* of ensure_stt_for_live_channels, and the monitor stays alive.
C22_FailuresNeverPropagate ==
    /\ C22_MonitorSurvivesFailures
    /\ last_pass.op # "ensure_raised"

\* What C23 says of the state stop() returns in (SpecMon).
C23_StoppedMeansAllDown ==
    stop_pc = "returned" =>
        /\ monitor.pc \in {"none", "done"}
        /\ MonitorQueue \notin Range(subscribers)
        /\ \A c \in Channels : ~is_running(Svc, c)

\* C23: stop() cancels the monitor, which unsubscribes and finishes, and
\* then stops every worker: a stop() that was called returns, and when it
\* has returned the monitor is finished, its queue is out of the poller's
\* list and no channel has a running worker (SpecStop).
C23_StopCancelsThenStopsAll ==
    /\ [](C23_StoppedMeansAllDown)
    /\ (stop_pc # "idle" ~> stop_pc = "returned")

\* the monitor waits in queue.get() on an empty queue
MonitorIdle ==
    /\ auto_stt_manager = "enabled"
    /\ stop_pc = "idle"
    /\ monitor.pc = "get"
    /\ queues[MonitorQueue] = <<>>

\* the catalog channels that are live in the poller's latest snapshot
LiveChannels == {c \in Channels : announced[CodeOf(c)] = LIVESTATUS_BROADCASTING}

\* C37: with the supervisor enabled and no manual start or stop, once the
\* monitor has handled every batch it was given and waits for the next, the
\* channels with a running worker are exactly the catalog channels that are
\* live in the poller's latest snapshot: no change published since the
\* start-up snapshot is missed, neither before the monitor subscribes nor
\* because its queue was evicted (SpecRecon).
C37_RunningEqualsLive ==
    MonitorIdle => {c \in Channels : is_running(Svc, c)} = LiveChannels

-----------------------------------------------------------------------------
(* Claims about the batch transcription of recorded meetings (SpecVod,      *)
(* SpecParse)                                                               *)

\* the runs of process() for meeting m that were created and have not exited
InProgress(m) ==
    {r \in VodRuns : vod_run[r].meeting = m /\ vod_run[r].pc \notin {"none", "done"}}

\* C24: for every meeting id at most one process() run is in progress at any
\* time, whatever the order in which the start-STT requests for it are served.
C24_AtMostOneRunPerMeeting ==
    \A m \in RequestIds : Cardinality(InProgress(m)) <= 1

\* the runs that began (registered their task) and have exited
ExitedRuns == {r \in VodRuns : vod_run[r].pc = "done" /\ vod_run[r].status # "none"}

\* what the except clause leaves behind: status failed, a non-empty error,
\* and the write that reverts the meeting to "ended" was issued
MarkedFailed(r) ==
    /\ vod_run[r].status = "failed"
    /\ vod_run[r].error # ""
    /\ vod_run[r].reverted \in StoreReplies

\* The part of C25 about exceptions: a run that exited because a step raised
\* is marked failed, and the meeting is "ended" again unless that write failed
\* or another run has put it to "processing" since.
C25_RaisedRunIsFailed ==
    \A r \in ExitedRuns : vod_run[r].exit = "failed" => MarkedFailed(r)

\* C25: every run that has exited without completing - a step raised, or the
\* run was cancelled mid-download or mid-upload - is marked failed with a
\* non-empty error and the revert of the meeting was attempted; no task is
\* left in status running by a run that has exited.
C25_ExitedRunIsFailedOrCompleted ==
    \A r \in ExitedRuns :
        /\ vod_run[r].status # "running"
        /\ vod_run[r].exit # "completed" => MarkedFailed(r)

\* The exits that do delete the temp file: every one but a cancellation
\* that arrives during the download.
C26_TempFileLeftOnlyByCancel ==
    \A r \in VodRuns :
        vod_run[r].pc = "done" /\ vod_run[r].tmp => vod_run[r].exit = "cancelled"

\* C26: the temp file a run created is deleted on every exit path (success,
\* an exception, a cancellation at any suspension point): no temp file of a
\* run exists once the run has exited.
C26_NoTempFileAfterExit ==
    \A r \in VodRuns : vod_run[r].pc = "done" => ~vod_run[r].tmp

\* The part of C27 about the range: progress lies within [0, 1] and is 1.0
\* exactly when the status is completed.
C27_ProgressWithinRange ==
    \A r \in VodRuns :
        /\ vod_run[r].progress \in 0..ProgressUnit
        /\ vod_run[r].progress = ProgressUnit <=> vod_run[r].status = "completed"

\* C27: during a run the progress of its task never decreases from one
\* update to the next, lies within [0, 1], and is 1.0 only together with
\* status completed.
C27_ProgressNeverDecreases ==
    /\ []C27_ProgressWithinRange
    /\ [][\A r \in VodRuns : vod_run'[r].progress >= vod_run[r].progress]_vars

\* an utterance whose transcript holds more than whitespace
HasText(utt) ==
    /\ "transcript" \in DOMAIN utt
    /\ \E i \in DOMAIN utt.transcript : utt.transcript[i] # Space

\* C28: for a reply with utterances the rows written to the subtitles table
\* are, in utterance order, one row per utterance with a non-blank
\* transcript, with its start, end and confidence, its trimmed and
\* terminology-corrected text and the speaker label index + 1 (null without
\* a speaker); no row has an empty text; a reply with neither utterances nor
\* words writes no row.
C28_OneCaptionPerSpokenUtterance ==
    LET kept == SelectSeq(dg_result.utterances, HasText)
    IN /\ dg_result.utterances # <<>> =>
              /\ Len(subtitles_table) = Len(kept)
              /\ \A i \in DOMAIN kept :
                     /\ subtitles_table[i].meeting_id = VodMeeting
                     /\ subtitles_table[i].start_time = kept[i].start
                     /\ subtitles_table[i].end_time = kept[i].end
                     /\ subtitles_table[i].confidence = kept[i].confidence
                     /\ subtitles_table[i].text =
                            DictCorrect(Strip(kept[i].transcript))
                     /\ subtitles_table[i].speaker =
                            (IF "speaker" \in DOMAIN kept[i]
                             THEN kept[i].speaker + 1 ELSE None)
       /\ \A i \in DOMAIN subtitles_table : subtitles_table[i].text # <<>>
       /\ dg_result.utterances = <<>> /\ dg_result.words = <<>> =>
              subtitles_table = <<>>

\* a reply of three utterances, one of them blank, was stored as two rows:
\* one with a speaker label, one without and with a corrected text
C28_Witness ==
    /\ Len(dg_result.utterances) = 3
    /\ Len(subtitles_table) = 2
    /\ \E i \in DOMAIN dg_result.utterances : ~HasText(dg_result.utterances[i])
    /\ \E i \in DOMAIN subtitles_table : subtitles_table[i].speaker = 2
    /\ \E i \in DOMAIN subtitles_table :
           /\ subtitles_table[i].speaker = None
           /\ subtitles_table[i].text = <<"ui", "won", "nim">>

-----------------------------------------------------------------------------
(* Claims about the caption refiner (SpecRef, SpecRefLive)                  *)

BatchIds(batch) == {batch[i].id : i \in DOMAIN batch}

\* the caption of batch with this id
CaptionOf(batch, id) == batch[CHOOSE i \in DOMAIN batch : batch[i].id = id]

\* the entries of the rewriter's reply
ReplyItems(reply) == IF "items" \in DOMAIN reply THEN reply.items ELSE <<>>

\* a reply entry that names a caption of the batch and carries a non-empty
\* text other than the caption's
CallsForEvent(batch, item) ==
    /\ "id" \in DOMAIN item /\ item.id \in BatchIds(batch)
    /\ "corrected_text" \in DOMAIN item /\ item.corrected_text # ""
    /\ item.corrected_text # CaptionOf(batch, item.id).text

\* the batch holds at most batch_size captions, and they are the ones that
\* left the queue last, in the order they were enqueued
FifoBatch(batch) ==
    /\ Len(batch) <= batch_size
    /\ \A i \in DOMAIN batch :
           batch[i].id = ref_enqueued - Len(ref_queue) - Len(batch) + i

\* C29: for a batch whose reply was handled to its end, the corrected events
\* sent are, in reply order, exactly the reply entries that name a caption of
\* the batch with a non-empty text other than the original, each to the room
\* the caption was emitted in; nothing is sent for unchanged texts or unknown
\* ids; every batch holds at most batch_size captions in FIFO order.
C29_EventsForChangedBatchItems ==
    /\ corrector = "enabled" => FifoBatch(ref_worker.batch) /\ FifoBatch(ref_last.batch)
    /\ ref_last.outcome = "ok" =>
           LET kept == SelectSeq(ReplyItems(ref_last.reply),
                                 LAMBDA item : CallsForEvent(ref_last.batch, item))
           IN /\ Len(ref_last.events) = Len(kept)
              /\ \A i \in DOMAIN kept :
                     ref_last.events[i] =
                         [room_id |-> CaptionOf(ref_last.batch, kept[i].id).channel_id,
                          id |-> kept[i].id,
                          corrected_text |-> kept[i].corrected_text]

\* a batch of two captions whose reply had an entry with a changed text for
\* the second caption and an entry that was skipped: one event, to "ch14"
C29_Witness ==
    /\ ref_last.outcome = "ok"
    /\ Len(ref_last.batch) = batch_size
    /\ Len(ReplyItems(ref_last.reply)) = 2
    /\ Len(ref_last.events) = 1
    /\ ref_last.events[1].room_id = "ch14"
    /\ \E i \in DOMAIN ref_last.reply.items :
           ~CallsForEvent(ref_last.batch, ref_last.reply.items[i])

\* The part of C30 about the loop: with the refiner enabled the worker is
\* always in its loop, whatever the rewriter answered.
C30_WorkerStaysInLoop ==
    corrector = "enabled" => ref_worker.pc \in {"get", "collect", "create"}

\* The part of C30 about later captions: with the refiner enabled every
\* caption in the queue is taken into a batch, also after a failed batch.
C30_QueuedCaptionsAreProcessed ==
    \A n \in 1..MaxEnqueued :
        (corrector = "enabled" /\ ref_enqueued = n /\ ref_queue # <<>>)
            ~> (ref_enqueued > n \/ ref_queue = <<>>)

\* C30: a batch whose reply could not be handled (the rewriter raised, or
\* the reply could not be parsed) is dropped without any corrected event,
\* and the worker stays in its loop.
C30_FailedBatchSendsNothing ==
    /\ C30_WorkerStaysInLoop
    /\ ref_last.outcome = "error" => ref_last.events = <<>>

-----------------------------------------------------------------------------
(* Claims about DeepgramService.transcribe (SpecAsr)                        *)

RateLimits(replies) ==
    \A i \in DOMAIN replies : replies[i].kind = "RateLimitError"

\* C31: transcribe makes at most max_retries + 1 API attempts; the sleeps
\* between them are 1 s, 2 s, 4 s, ...; every attempt but the last was
\* answered with a rate limit; it returns the result of the first attempt
\* that succeeds, raises RateLimitError when max_retries + 1 attempts were
\* rate-limited, and raises any other error of an attempt at once.
C31_RetryOnRateLimitOnly ==
    LET c == transcribe_call
        n == Len(c.replies)
        allowed == IF c.max_retries + 1 > 0 THEN c.max_retries + 1 ELSE 0
    IN  /\ n <= allowed
        /\ \A i \in DOMAIN c.sleeps : c.sleeps[i] = Pow2(i - 1)
        /\ c.pc = "call" => Len(c.sleeps) = n /\ RateLimits(c.replies)
        /\ c.pc = "sleep" => Len(c.sleeps) = n /\ RateLimits(c.replies)
        /\ c.pc \in {"returned", "raised"} /\ n > 0 =>
              /\ Len(c.sleeps) = n - 1
              /\ RateLimits(SubSeq(c.replies, 1, n - 1))
        /\ c.pc = "returned" /\ c.audio_chunk =>
              /\ c.replies[n].kind = "ok"
              /\ c.result = IF c.apply_dictionary /\ c.dictionary_service
                            THEN DictCorrect(c.replies[n].text)
                            ELSE c.replies[n].text
        /\ c.pc = "raised" /\ c.raised = "RateLimitError" =>
              n = allowed /\ RateLimits(c.replies)
        /\ c.pc = "raised" /\ c.raised # "RateLimitError" =>
              c.replies[n].kind = c.raised

\* a call that was rate-limited twice, slept 1 s and 2 s, and then returned
\* the result of its third attempt
C31_Witness ==
    /\ transcribe_call.pc = "returned"
    /\ Len(transcribe_call.replies) = 3
    /\ transcribe_call.sleeps = <<1, 2>>
    /\ transcribe_call.max_retries = 3

-----------------------------------------------------------------------------
(* Claims about group_words_by_speaker (SpecGroup)                          *)

\* the text of a word as the function reads it
TextOfWord(w) == IF "punctuated_word" \in DOMAIN w THEN w.punctuated_word
                 ELSE w.word

\* positions at which a maximal run of one speaker begins
RunStarts(words) ==
    {i \in DOMAIN words : i = 1 \/ words[i].speaker # words[i - 1].speaker}

\* first and last position of the k-th maximal run
RunFirst(words, k) ==
    CHOOSE i \in RunStarts(words) :
        Cardinality({j \in RunStarts(words) : j <= i}) = k

RunLast(words, k) ==
    IF k = Cardinality(RunStarts(words)) THEN Len(words)
    ELSE RunFirst(words, k + 1) - 1

\* C32: the groups are the maximal runs of consecutive words of one
\* speaker, in order: group k has the speaker of run k, the start of its
\* first word, the end of its last word and its words joined by spaces;
\* adjacent groups differ in speaker; the groups' texts joined in order are
\* the words joined in order; no words give no group.
C32_GroupsAreMaximalRuns ==
    group_call.pc = "done" =>
        LET words == group_call.words
            groups == group_call.groups
        IN  /\ Len(groups) = Cardinality(RunStarts(words))
            /\ \A k \in DOMAIN groups :
                   LET a == RunFirst(words, k)
                       b == RunLast(words, k)
                   IN  /\ groups[k].speaker = words[a].speaker
                       /\ groups[k].start = words[a].start
                       /\ groups[k].end = words[b].end
                       /\ groups[k].text =
                              Join([i \in 1..(b - a + 1) |->
                                       TextOfWord(words[a + i - 1])])
                       /\ \A i \in a..b :
                              words[i].speaker = groups[k].speaker
            /\ \A k \in DOMAIN groups :
                   k < Len(groups) => groups[k].speaker # groups[k + 1].speaker
            /\ Join([k \in DOMAIN groups |-> groups[k].text])
                   = Join([i \in DOMAIN words |-> TextOfWord(words[i])])
            /\ words = <<>> => groups = <<>>

\* four words of speakers 0, 0, 1, None were grouped into three groups
C32_Witness ==
    /\ group_call.pc = "done"
    /\ Len(group_call.words) = 4
    /\ [i \in 1..4 |-> group_call.words[i].speaker] = <<0, 0, 1, None>>
    /\ Len(group_call.groups) = 3
    /\ group_call.groups[1].start = 2 /\ group_call.groups[1].end = 5

-----------------------------------------------------------------------------
(* Claims about the terminology dictionary (SpecDict)                       *)

\* C33: correcting a corrected text changes nothing:
\* correct(correct(x)) = correct(x) for the default dictionary, whose
\* entries are applied as literal replacements in declaration order.
C33_CorrectIsIdempotent ==
    correct_call.pc = "done" => correct_call.twice = correct_call.once

\* "sanae reul seonpo" side by side with "uiwon nim": entries 1 and 16 both
\* changed the text
C33_Witness ==
    /\ correct_call.pc = "done"
    /\ correct_call.x = PARLIAMENT_ENTRIES[1][1] \o PARLIAMENT_ENTRIES[16][1]
    /\ correct_call.once = PARLIAMENT_ENTRIES[1][2] \o PARLIAMENT_ENTRIES[16][2]
    /\ correct_call.once # correct_call.x

-----------------------------------------------------------------------------
(* Claims about the reconnect loop and the watchdog (SpecWd, SpecWdLive)     *)

\* the reconnect loop begins asyncio.sleep(delay) in this step
SleepBegins == rl.pc # "sleep" /\ rl'.pc = "sleep"

\* the delay that follows `previous` when sessions keep failing
Doubled(previous) ==
    IF previous * 2 < MAX_RECONNECT_DELAY THEN previous * 2
    ELSE MAX_RECONNECT_DELAY

\* C35: the delay slept between two sessions is within [1 s, 30 s]: the first
\* sleep is 1 s, the sleep after a session that raised is twice the previous
\* sleep, at most 30 s (1, 2, 4, 8, 16, 30, 30, ...), and the sleep after a
\* session that ended without raising is 1 s.
C35_BackoffDoublesCapsAndResets ==
    [][SleepBegins =>
          /\ rl'.cur_sleep \in 1..MAX_RECONNECT_DELAY
          /\ rl'.sleep_left = rl'.cur_sleep
          /\ rl'.last_exit = "returned" => rl'.cur_sleep = 1
          /\ rl'.last_exit = "raised" =>
                 rl'.cur_sleep = IF rl.cur_sleep = 0 THEN 1
                                 ELSE Doubled(rl.cur_sleep)]_vars

\* the seventh session in a row has failed and the loop sleeps the capped delay
C35_Witness ==
    /\ rl.pc = "sleep"
    /\ rl.last_exit = "raised"
    /\ rl.fails = MaxFails
    /\ rl.cur_sleep = MAX_RECONNECT_DELAY

\* a session is open and the provider has sent nothing on it for
\* STALL_TIMEOUT or longer
SilentSession == rl.pc = "session" /\ Quiet >= STALL_TIMEOUT

\* the watchdog has closed the websocket and the session has unwound
ClosedByWatchdog == rl.pc = "sleep" /\ rl.closed_by = "watchdog"

\* the watchdog wakes up, finds no stall and goes back to sleep
WatchdogSleepsAgain ==
    /\ rl.pc = "session" /\ rl.to_tick = 0
    /\ rl'.pc = "session" /\ rl'.to_tick > 0

C40_WatchdogClosesOnlyStalledSessions ==
    ClosedByWatchdog => rl.silence > STALL_TIMEOUT

-----------------------------------------------------------------------------
(* Claims about the worker lifecycle (Spec)                                 *)

Alive(t) == worker[t].state \notin {"none", "done"}

\* C1: for every channel at most one reconnect-loop task created for it is
\* alive (created and not yet finished), under any interleaving of start,
\* stop and stop_all.
C1_AtMostOneAliveTask ==
    \A c \in Channels :
        Cardinality({t \in Tasks : Alive(t) /\ worker[t].ch = c}) <= 1

\* C2: once stop(c) has returned and until start(c) is called again (no call
\* is in progress and the channel has no task), the hub's caption history of
\* room c is empty: nothing is broadcast for c and appended to it.
C2_HistoryEmptyAfterStop ==
    \A c \in Channels :
        ((\A k \in Callers : caller[k].op = "idle") /\ active_tasks[c] = None)
            => subtitle_history[c] = <<>>

\* C3: fragments that wait unflushed in the Sentence Buffer when stop's
\* cancellation reaches the worker are never broadcast in a caption.
C3_HeldFragmentsNeverBroadcast ==
    \A c \in Channels :
        \A i \in DOMAIN subtitle_history[c] : subtitle_history[c][i] # "held"

\* C4: a worker task finishes only when it was cancelled (the cancellation
\* is pending, or was delivered and the websocket is closing); a failed connect
\* and a session that ended are followed by the sleep of the loop; no task
\* ends with an error and none is raised to a caller of stop.
C4_LoopSurvivesSessionErrors ==
    /\ [](\A t \in Tasks : worker[t].result # "error")
    /\ [](callerError = {})
    /\ [][\A t \in Tasks :
            /\ (worker[t].state # "done" /\ worker'[t].state = "done")
                    => (worker[t].cancel \/ worker[t].state = "closing")
            /\ (worker[t].state \in {"connect", "wait"} /\ ~worker[t].cancel
                    /\ worker'[t].state \notin {worker[t].state, "wait"})
                    => worker'[t].state = "sleep"]_vars

\* A session is open whose worker has seen a session fail and one end.
C4_Witness ==
    \E t \in Tasks :
        /\ worker[t].state = "wait"
        /\ reconnect_count[worker[t].ch] >= 1
        /\ worker[t].delay >= 2

\* a sub-task of the session has been created and has not terminated
LiveSubs(se) == \E n \in SubNames : session[se].subs[n] \in {"running", "detached"}

\* the session is the one a worker task is in: waiting on the sub-tasks, or
\* closing the websocket on its way out
InSession(se) ==
    \E t \in Tasks : worker[t].cur = se /\ worker[t].state \in {"wait", "closing"}

\* C34: the sub-tasks of a session never outlive it: whether the session
\* ends because one of them finished or because the worker was stopped, no
\* uploader, receiver, keepalive or watchdog is left once the worker has
\* left the session, and so none is left when stop(c) returns.
C34_SubTasksNeverOutliveSession ==
    \A se \in Sessions : LiveSubs(se) => InSession(se)

\* C38: stop(c) tears down only the worker it cancelled: a worker that
\* start(c) registered while the stop was awaiting the old task keeps its
\* playlist reader open and registered and keeps its caption counter when the
\* stop completes; every running worker has its own reader registered.
C38_StopSparesTheNewWorker ==
    \A c \in Channels :
        is_running(Svc, c) =>
            /\ parsers[c] = active_tasks[c]
            /\ subtitle_counter[c] # None

=============================================================================
